---- MODULE Spec2Model ----
(***************************************************************************)
(* Model of the hyperbiscus agent process (packages/agent):                *)
(*   - ws-server.ts : the add_liquidity trigger and its global action lock *)
(*   - actions.ts   : handleAddLiquidity, the five-step delegate / execute *)
(*                    / commit+undelegate / checkpoint workflow            *)
(*   - agent.ts, index.ts, tools.ts : the monitoring tick loop             *)
(* together with the base-layer owner of the session PDA, which is the     *)
(* only ledger state the agent code itself inspects.                       *)
(***************************************************************************)
EXTENDS Naturals, Integers, Sequences, FiniteSets, TLC

\* ---------------------------------------------------------------- bounds
MaxTriggers == 3      \* add_liquidity messages received
MaxTicks    == 3      \* monitoring ticks started
MaxRounds   == 1      \* tool_use rounds of one tick's ReAct loop
MaxBlocks   == 1      \* tool_use blocks in one model response
NumConns    == 2      \* WebSocket connections that may send triggers
MaxCalls    == 3      \* sendErTx calls followed RPC by RPC
MaxSockets  == 3      \* WebSocket objects one hook instance creates
MaxUrls     == 2      \* url/token values one hook instance is given
MaxRepeats  == 1      \* tick messages whose timestamp was received before
SpareStamps == 2      \* tick timestamps beyond those the history can hold
MaxAppends  == 4      \* appendMemory calls made
MaxFragments == 3     \* pieces an entry text is put together from

\* ------------------------------------------------------ program constants
UNDELEGATION_POLL_ATTEMPTS == 12
EXECUTE_ACTION_AMOUNT == 100000
AUTH_TIMEOUT_MS == 5000
CHAT_RATE_LIMIT_MS == 3000
MAX_HISTORY_ITEMS == 50
MEMORY_TAIL_LINES == 30
MEMORY_MAX_LINES == 500
EntryCap == 500
ACTION_LP_REBALANCE == 0
ACTION_YIELD_SWITCH == 1
ACTION_LIQUIDATION_PROTECT == 2
STRATEGY_MASK == 3    \* STRATEGY_LP | STRATEGY_YIELD = (1 << 0) | (1 << 1)

DELEGATION_PROGRAM_ID == "delegation"
PROGRAM_ID            == "program"
NoAccount             == "null"
Owners == {PROGRAM_ID, DELEGATION_PROGRAM_ID, NoAccount}

Workflows == 1..MaxTriggers
Conns     == 1..NumConns
Ticks     == 1..MaxTicks

\* Exposure caps a session may have been initialised with: one that a second
\* execute_action of a fresh session oversteps, one that a second reaches.
SessionCaps == {150000, 200000}

VARIABLES
  actionInFlight,   \* ws-server.ts: let actionInFlight = false
  received,         \* number of add_liquidity messages handled so far
  started,          \* number of handleAddLiquidity calls made so far
  wf,               \* per call of handleAddLiquidity: its position and locals
  clients,          \* wss.clients in insertion order: socket state and the
                    \* action_step messages the peer received for the
                    \* latest workflow
  owner,            \* base layer: owner of the session PDA account
  undelegPending,   \* an undelegate landed on the ER, not yet propagated
  spentLamports,    \* session: exposure spent so far
  maxLamports,      \* session: exposure cap set by initialize_session
  totalActions,     \* session: number of actions executed
  isActive,         \* session: false once undelegated
  expired,          \* the session's expiry instant has passed
  committed,        \* the session data the base layer account holds
  commitPending,    \* data of a commit that landed on the ER, not yet on
                    \* the base layer
  lastRequest,      \* the latest execute_action sent to the ledger directly
  tickNumber,       \* index.ts: let tickNumber = 0
  tk,               \* per tick: position and locals of runTick
  tickLog,          \* tick messages broadcast, in order
  memoryLen,        \* number of lines appended to MEMORY.md
  monitorWrites,    \* owners of the session PDA seen at the instants the
                    \* monitor tick submitted update_lp_status
  secret,           \* ws-server.ts: config.wsSecret is set
  lastMsg,          \* the latest message sent by a connection that had not
                    \* authenticated: sender and kind
  erCall,           \* actions.ts: the sendErTx call in progress
  erLog,            \* the sendErTx calls that returned or threw, in order
  hook,             \* useAgentWebSocket: "unrendered", "mounted", "gone"
  urlGen,           \* which url/token value the hook was last rendered with
  unmounted,        \* useAgentWebSocket: unmounted.current
  sockets,          \* the WebSocket objects the hook created: readyState
                    \* and the url/token value of the connect that made it
  wsRef,            \* wsRef.current: index into sockets, 0 for null
  reconnectTimer,   \* reconnectTimer.current: a timer id, 0 for null
  timers,           \* pending setTimeout(connect, ...) timers: the id of a
                    \* timer is the index of the socket whose close set it
  connected,        \* useAgentWebSocket: the connected state
  lastTick,         \* useAgentWebSocket: the lastTick state
  history,          \* useAgentWebSocket: the history state
  recv,             \* per timestamp: the number of tick messages received
                    \* when the latest one with that timestamp came, 0 for none
  tickMsgs,         \* the number of tick messages received
  appended,         \* memory.ts: the number of appendMemory calls made; the
                    \* k-th call's entry is entry k
  writeQueue,       \* memory.ts: the entries whose write is chained on
                    \* writeQueue and has not run, in chain order
  memoryFile,       \* MEMORY.md: how many lines it holds from before the
                    \* process started, and the entries it holds
  written,          \* the entries whose appendFileSync returned
  failed,           \* the entries whose write threw
  entryText,        \* the text handed to sanitizeMemoryEntry, as characters
  entryOut          \* what sanitizeMemoryEntry returned, once it has

vars == <<actionInFlight, received, started, wf, clients, owner, undelegPending,
          spentLamports, maxLamports, totalActions, isActive, expired,
          committed, commitPending, lastRequest, tickNumber, tk, tickLog, memoryLen, monitorWrites,
          secret, lastMsg, erCall, erLog,
          hook, urlGen, unmounted, sockets, wsRef, reconnectTimer, timers,
          connected, lastTick, history, recv, tickMsgs,
          appended, writeQueue, memoryFile, written, failed,
          entryText, entryOut>>

wsVars   == <<actionInFlight, received, started, wf, clients>>
tickVars == <<tickNumber, tk, tickLog, memoryLen, monitorWrites>>
authVars == <<secret, lastMsg>>
sendVars == <<erCall, erLog>>
\* What is followed in specifications of its own.
hookVars == <<hook, urlGen, unmounted, sockets, wsRef, reconnectTimer, timers,
              connected>>
historyVars == <<lastTick, history, recv, tickMsgs>>
memVars == <<appended, writeQueue, memoryFile, written, failed>>
sanitizeVars == <<entryText, entryOut>>
partVars == <<sendVars, hookVars, historyVars, memVars, sanitizeVars>>
ledgerVars == <<totalActions, isActive, expired, committed, commitPending,
                lastRequest>>
chainVars == <<owner, undelegPending, spentLamports, maxLamports, ledgerVars>>

\* ------------------------------------------------------------ ActionStep
\* One entry of a workflow's trace: a step handed to onStep, or an operation
\* handed to an RPC endpoint.
Step(idx, status, label) ==
  [kind |-> "step", idx |-> idx, status |-> status, what |-> label]

PhaseOfOp(name) ==
  CASE name = "delegate_session"   -> 2
    [] name = "execute_action"     -> 3
    [] name = "commit_session"     -> 4
    [] name = "undelegate_session" -> 4
    [] name = "update_lp_status"   -> 5

Op(name) ==
  [kind |-> "op", idx |-> PhaseOfOp(name), status |-> "submitted", what |-> name]

PhaseOfPc(p) ==
  CASE p = "readPosition"       -> 1
    [] p = "getAccountInfo"     -> 2
    [] p = "readSessionOwner"   -> 2
    [] p = "delegateSession"    -> 2
    [] p = "pickupSleep"        -> 2
    [] p = "executeAction"      -> 3
    [] p = "commitSession"      -> 4
    [] p = "undelegateSession"  -> 4
    [] p = "pollSleep"          -> 5
    [] p = "pollFetch"          -> 5
    [] p = "checkpoint"         -> 5
    [] OTHER                    -> 0

ActivePcs == {"readPosition", "getAccountInfo", "readSessionOwner",
              "delegateSession", "pickupSleep", "executeAction",
              "commitSession", "undelegateSession", "pollSleep",
              "pollFetch", "checkpoint"}

NoWorkflow ==
  [pc |-> "none", i |-> 0, trace |-> <<>>, settled |-> "none",
   sawDelegated |-> FALSE, failedAt |-> 0, exhausted |-> FALSE,
   sleeps |-> 0, fetches |-> 0, returnedSeen |-> FALSE,
   thrownPc |-> "none", silentOp |-> "none"]

\* What is kept of a call that settled before a later call began: its locals
\* and its steps are garbage by then.
Discarded == [NoWorkflow EXCEPT !.pc = "discarded"]

NoTick ==
  [pc |-> "none", round |-> 0, blocks |-> <<>>,
   checkResult |-> FALSE, txResult |-> FALSE,
   instrFailed |-> FALSE, wroteDelegated |-> FALSE, threw |-> FALSE]

\* The session data as it stands where the session lives.
SessionData ==
  [spentLamports |-> spentLamports, totalActions |-> totalActions,
   isActive |-> isActive]

NoCommit == [spentLamports |-> -1, totalActions |-> -1, isActive |-> FALSE]

NoRequest ==
  [signerOk |-> FALSE, category |-> -1, amount |-> 0, result |-> "none"]

NoMsg == [from |-> 0, kind |-> "none"]

\* No sendErTx call in progress.  fate: what became of the transaction on
\* the ER ("none": not sent).  receipt: what getTransaction returned.
NoCall == [pc |-> "idle", fate |-> "none", receipt |-> "none"]

\* The timestamps tick messages carry, and useState<TickData | null>(null).
Timestamps == 1..(MAX_HISTORY_ITEMS + SpareStamps)
NoTickData == [timestamp |-> 0, tickNumber |-> 0]

\* The state after startWsServer, with (s) or without WS_SECRET configured,
\* MEMORY.md as left by earlier runs, and the text of the entry at hand.
Boot(s, file, text) ==
  /\ secret = s
  /\ lastMsg = NoMsg
  /\ actionInFlight = FALSE
  /\ received = 0
  /\ started = 0
  /\ wf = [w \in Workflows |-> NoWorkflow]
  /\ clients = <<>>
  /\ owner \in Owners
  /\ undelegPending \in BOOLEAN
  /\ undelegPending => owner = DELEGATION_PROGRAM_ID
  /\ spentLamports = 0
  /\ maxLamports \in SessionCaps
  /\ totalActions = 0
  /\ isActive = ~undelegPending
  /\ expired = FALSE
  /\ committed = [spentLamports |-> 0, totalActions |-> 0, isActive |-> TRUE]
  /\ commitPending = NoCommit
  /\ lastRequest = NoRequest
  /\ tickNumber = 0
  /\ tk = [t \in Ticks |-> NoTick]
  /\ tickLog = <<>>
  /\ memoryLen = 0
  /\ monitorWrites = {}
  /\ erCall = NoCall
  /\ erLog = <<>>
  /\ hook = "unrendered"
  /\ urlGen = 1
  /\ unmounted = FALSE
  /\ sockets = <<>>
  /\ wsRef = 0
  /\ reconnectTimer = 0
  /\ timers = {}
  /\ connected = FALSE
  /\ lastTick = NoTickData
  /\ history = <<>>
  /\ recv = [ts \in Timestamps |-> 0]
  /\ tickMsgs = 0
  /\ appended = 0
  /\ writeQueue = <<>>
  /\ memoryFile = file
  /\ written = {}
  /\ failed = {}
  /\ entryText = text
  /\ entryOut = [done |-> FALSE, text |-> <<>>]

\* No MEMORY.md yet, and no entry text.
Start(s) == Boot(s, [old |-> 0, new |-> <<>>], <<>>)

Init == Start(FALSE)

\* MEMORY.md is absent or empty, or one line short of MEMORY_MAX_LINES.
MemoryInit ==
  \E n \in {0, MEMORY_MAX_LINES - 1} :
    Boot(FALSE, [old |-> n, new |-> <<>>], <<>>)

\* The session is initialised and not delegated, with the smaller cap.
ServerInit ==
  /\ Init
  /\ owner = PROGRAM_ID
  /\ \A cap \in SessionCaps : maxLamports <= cap

\* The session is initialised and not delegated, with the smaller cap.
AuthInit ==
  /\ Start(TRUE)
  /\ owner = PROGRAM_ID
  /\ \A cap \in SessionCaps : maxLamports <= cap

\* ================================================================ chain
\* The ER validator's ScheduleCommitAndUndelegate callback reaches the base
\* layer some time after the undelegate landed on the ER.
\* The account then is owned by the program again, or closed.
\* The final state of the session comes with it.
Propagate ==
  /\ undelegPending
  /\ owner = DELEGATION_PROGRAM_ID
  /\ owner' \in {PROGRAM_ID, NoAccount}
  /\ undelegPending' = FALSE
  /\ committed' = SessionData
  /\ commitPending' = NoCommit
  /\ UNCHANGED <<spentLamports, maxLamports, totalActions, isActive, expired,
                 lastRequest, wsVars, tickVars, authVars, partVars>>

\* A commit that landed on the ER reaches the base layer: the account data
\* there becomes the data committed, the owner stays the delegation program.
PropagateCommit ==
  /\ commitPending # NoCommit
  /\ owner = DELEGATION_PROGRAM_ID
  /\ committed' = commitPending
  /\ commitPending' = NoCommit
  /\ UNCHANGED <<owner, undelegPending, spentLamports, maxLamports,
                 totalActions, isActive, expired, lastRequest, wsVars, tickVars, authVars, partVars>>

\* ============================================================ sendErTx
\* Outcomes of one sendErTx call (actions.ts).  "rpc_error": getLatestBlockhash
\* throws, nothing is sent.  "send_error": sendRawTransaction throws.
\* "confirm_error_*": confirmTransaction throws after the transaction was
\* sent.  "instr_error": confirmed, receipt has meta.err.  "no_receipt_*":
\* getTransaction returns null, the signature is returned.  "ok": receipt
\* without error.
ErOutcomes == {"rpc_error", "send_error", "confirm_error_landed",
               "confirm_error_lost", "instr_error", "no_receipt_landed",
               "no_receipt_failed", "ok"}

ErSubmitted(o) == o # "rpc_error"
\* if (txInfo?.meta?.err) throw new Error(...)
ErThrows(o) == o \in {"rpc_error", "send_error", "confirm_error_landed",
                      "confirm_error_lost", "instr_error"}
ErLanded(o) == o \in {"confirm_error_landed", "no_receipt_landed", "ok"}
\* The transaction was confirmed and its instruction failed; getTransaction
\* returns the receipt that says so, or null.
InstructionFailed(o) == o \in {"instr_error", "no_receipt_failed"}

\* --------------------------------------------------- sendErTx, RPC by RPC
\* if (txInfo?.meta?.err) throw: a null txInfo has no meta and does not throw.
ReceiptThrows(receipt) == receipt = "err"

\* The call in progress ends: it returns the signature or throws.
Finish(call, result) ==
  /\ erLog' = Append(erLog, [fate |-> call.fate, receipt |-> call.receipt,
                              result |-> result])
  /\ erCall' = NoCall

\* sendErTx is called.
SendErTxBegin ==
  /\ erCall.pc = "idle"
  /\ Len(erLog) < MaxCalls
  /\ erCall' = [erCall EXCEPT !.pc = "getLatestBlockhash"]
  /\ UNCHANGED erLog

\* await erConnection.getLatestBlockhash(), then wallet.signTransaction(tx)
GetLatestBlockhash ==
  /\ erCall.pc = "getLatestBlockhash"
  /\ \E ok \in BOOLEAN :
       IF ok THEN /\ erCall' = [erCall EXCEPT !.pc = "sendRawTransaction"]
                  /\ UNCHANGED erLog
             ELSE Finish(erCall, "throw")

\* await erConnection.sendRawTransaction(..., { skipPreflight: true }): the
\* transaction succeeds on the ER, fails there or is dropped; when the call
\* throws the transaction may have reached the validator all the same.
SendRawTransaction ==
  /\ erCall.pc = "sendRawTransaction"
  /\ \/ \E f \in {"ok", "failed", "dropped"} :
          /\ erCall' = [erCall EXCEPT !.pc = "confirmTransaction", !.fate = f]
          /\ UNCHANGED erLog
     \/ \E f \in {"ok", "failed", "dropped", "none"} :
          Finish([erCall EXCEPT !.fate = f], "throw")

\* await erConnection.confirmTransaction(sig, "confirmed"): resolves once the
\* transaction is in a confirmed slot, whether its instruction failed or
\* not (the value it resolves with is not looked at); throws on expiry or
\* on an RPC error.
ConfirmTransaction ==
  /\ erCall.pc = "confirmTransaction"
  /\ \/ /\ erCall.fate \in {"ok", "failed"}
        /\ erCall' = [erCall EXCEPT !.pc = "getTransaction"]
        /\ UNCHANGED erLog
     \/ Finish(erCall, "throw")

\* await erConnection.getTransaction(sig, ...): the receipt, null when the
\* node does not have it (yet), or an RPC error; then the test of meta.err.
GetTransaction ==
  /\ erCall.pc = "getTransaction"
  /\ \/ \E r \in {"null", IF erCall.fate = "ok" THEN "ok" ELSE "err"} :
          LET call == [erCall EXCEPT !.receipt = r]
          IN Finish(call, IF ReceiptThrows(r) THEN "throw" ELSE "sig")
     \/ Finish(erCall, "throw")

sendErTx ==
  /\ \/ SendErTxBegin
     \/ GetLatestBlockhash
     \/ SendRawTransaction
     \/ ConfirmTransaction
     \/ GetTransaction
  /\ UNCHANGED <<wsVars, chainVars, tickVars, authVars, hookVars, historyVars,
                 memVars, sanitizeVars>>

\* execute_action on the ledger: the instruction is accepted when the amount
\* fits under the session's exposure cap, and then adds the amount to the
\* exposure spent; a rejected instruction leaves the session as it was.
ExposureAccepted_unchecked(spent, amount, cap) == TRUE

ExposureAccepted(spent, amount, cap) == spent + amount <= cap

SpentAfter(spent, amount) == spent + amount

CountAfter_unchanged(n) == n

CountAfter(n) == n + 1

\* strategy_mask & (1 << category) != 0
BitSet(mask, category) == (mask \div (2 ^ category)) % 2 = 1

\* execute_action validates, in this order, the signer against the session
\* key, the expiry, the strategy bit of the category and the exposure.
ExecuteResult_noStrategy(signerOk, isExpired, mask, category, spent, amount, cap) ==
  IF ~signerOk THEN "UnauthorizedKey"
  ELSE IF isExpired THEN "Expired"
  ELSE IF ~ExposureAccepted(spent, amount, cap) THEN "ExposureLimitExceeded"
  ELSE "ok"

ExecuteResult(signerOk, isExpired, mask, category, spent, amount, cap) ==
  IF ~signerOk THEN "UnauthorizedKey"
  ELSE IF isExpired THEN "Expired"
  ELSE IF ~BitSet(mask, category) THEN "StrategyNotEnabled"
  ELSE IF ~ExposureAccepted(spent, amount, cap) THEN "ExposureLimitExceeded"
  ELSE "ok"

\* Only an accepted action changes the session.
ExecuteApplies_always(result) == TRUE

ExecuteApplies(result) == result = "ok"

\* undelegate_session marks the session inactive before it schedules the
\* return of the account.
ActiveAfterUndelegate_kept(a) == a

ActiveAfterUndelegate(a) == FALSE

\* Outcomes of a base-layer submission (program.methods...rpc() and
\* submitUpdateLpStatus): both throw when the confirmed transaction failed.
BaseOutcomes == {"rpc_error", "instr_error", "ok"}
BaseSubmitted(o) == o # "rpc_error"

\* ============================================================ ws-server
\* Concurrency guard of the add_liquidity branch: the handler goes on to call
\* handleAddLiquidity only when no action is in flight.
StartsWorkflow_unguarded(inFlight) == TRUE

StartsWorkflow(inFlight) == ~inFlight

\* A connection as the server and its peer see it.  st: "OPEN", "broken"
\* (readyState OPEN but the peer is unreachable, writes are lost) or "closed"
\* (readyState CLOSING or CLOSED).  cooldown: the time left until
\* chatCooldown.get(ws) is reached.  chatting: the handleChat calls made for
\* the connection that have not settled.  inbox: the action steps the peer received
\* of the latest workflow.  joinedAt: how many steps of that workflow had been
\* emitted when the connection was accepted.  lost: a step of that workflow
\* was written to the socket and did not arrive.
NewClient(inbox, at) ==
  [st |-> "OPEN", inbox |-> inbox, joinedAt |-> at, lost |-> FALSE,
   authed |-> ~secret, timer |-> secret, age |-> 0, chatBusy |-> FALSE,
   cooldown |-> 0, chatting |-> 0]

\* if (client.readyState === WebSocket.OPEN)
ReadyStateOpen(st) == st \in {"OPEN", "broken"}

\* client.send(data) on a server-side socket queues the frame and returns; a
\* failing write surfaces later as the socket's close, not as an exception.
SendThrows_onBroken(st) == st = "broken"

SendThrows(st) == FALSE

\* for (const client of wss.clients) ... client.send(data), from the i-th
\* client on, for the steps emitted by one event.
RECURSIVE broadcastAll(_, _, _)
broadcastAll(cl, msgs, i) ==
  IF i > Len(cl) \/ msgs = <<>> THEN cl
  ELSE IF ~ReadyStateOpen(cl[i].st) THEN broadcastAll(cl, msgs, i + 1)
  ELSE IF SendThrows(cl[i].st) THEN [cl EXCEPT ![i].lost = TRUE]
  ELSE IF cl[i].st = "broken"
         THEN broadcastAll([cl EXCEPT ![i].lost = TRUE], msgs, i + 1)
         ELSE broadcastAll([cl EXCEPT ![i].inbox = @ \o msgs], msgs, i + 1)

StepsOf(tr) == SelectSeq(tr, LAMBDA x : x.kind = "step")

\* The steps handed to onStep between two traces of the same call.
NewSteps(old, new) == StepsOf(SubSeq(new, Len(old) + 1, Len(new)))

\* authorizeAndGreet sends the connected payload and the last tick: of the
\* running workflow's earlier steps it sends none.
Greeting_replay(tr) == StepsOf(tr)

Greeting(tr) == <<>>

\* actionInFlight = true, set before handleAddLiquidity is called.
GateOnAcquire_forgotten == FALSE

GateOnAcquire == TRUE

\* .finally(() => { actionInFlight = false }) runs whether the promise of
\* handleAddLiquidity fulfilled or rejected.
GateAfterSettle_thenOnly(outcome) == outcome = "rejected"

GateAfterSettle(outcome) == FALSE

\* ============================================================= actions.ts
\* const alreadyDelegated = accountInfo?.owner.equals(DELEGATION_PROGRAM_ID) ?? false
alreadyDelegated_never(o) == FALSE

alreadyDelegated(o) == o = DELEGATION_PROGRAM_ID

\* for (let i = 0; i < UNDELEGATION_POLL_ATTEMPTS; i++)
PollContinues_offByOne(k) == k <= UNDELEGATION_POLL_ATTEMPTS

PollContinues(k) == k < UNDELEGATION_POLL_ATTEMPTS

\* if (!info || !info.owner.equals(DELEGATION_PROGRAM_ID))
OwnershipReturned_always(o) == TRUE

OwnershipReturned(o) == o = NoAccount \/ o # DELEGATION_PROGRAM_ID

\* Where control goes when an await inside the try block throws at position p:
\* always the catch block, which emits the terminal step and returns.
AfterThrow_retry(p) == IF p = "executeAction" THEN "executeAction" ELSE "done"

AfterThrow_swallowCommit(p) == IF p = "commitSession" THEN "undelegateSession" ELSE "done"

AfterThrow_ignoreRead(p) == IF p = "readPosition" THEN "getAccountInfo" ELSE "done"

AfterThrow(p) == "done"

\* Steps emitted between two awaits.
StepsAtStart == <<Step(1, "pending", "reading")>>

StepsAfterRead == <<Step(1, "success", "position_read"),
                    Step(2, "pending", "delegating")>>

StepsAlreadyDelegated == <<Step(2, "success", "already_delegated"),
                           Step(3, "pending", "executing")>>

StepsAfterPickup == <<Step(2, "success", "delegated"),
                      Step(3, "pending", "executing")>>

StepsAfterExecute_noSuccess == <<Step(4, "pending", "committing")>>

StepsAfterExecute == <<Step(3, "success", "executed"),
                       Step(4, "pending", "committing")>>

StepsAfterUndelegate == <<Step(4, "success", "committed_undelegated"),
                          Step(5, "pending", "checkpointing")>>

StepCheckpointed == Step(5, "success", "checkpointed")

StepCheckpointFailed_asSuccess == Step(5, "success", "checkpoint_failed")

StepCheckpointFailed == Step(5, "error", "checkpoint_failed")

StepSyncPending_asError == Step(5, "error", "sync_pending")

StepSyncPending == Step(5, "success", "sync_pending")

StepCaught == Step(-1, "error", "error")

\* The promise of call w settles: the function's last statement has run and
\* the .catch/.finally reactions of ws-server.ts run before any other event.
Settle(w, rec, outcome) ==
  /\ wf' = [wf EXCEPT ![w] = [rec EXCEPT !.pc = "done", !.settled = outcome]]
  /\ clients' = broadcastAll(clients, NewSteps(wf[w].trace, rec.trace), 1)
  /\ actionInFlight' = GateAfterSettle(outcome)

\* An await of call w throws while the call's locals are rec.
Throw(w, rec) ==
  LET p   == wf[w].pc
      nxt == AfterThrow(p)
      r   == [rec EXCEPT !.failedAt = PhaseOfPc(p), !.thrownPc = p]
  IN IF nxt = "done"
       THEN Settle(w, [r EXCEPT !.trace = Append(r.trace, StepCaught)], "fulfilled")
       ELSE /\ wf' = [wf EXCEPT ![w] = [r EXCEPT !.pc = nxt]]
            /\ clients' = broadcastAll(clients, NewSteps(wf[w].trace, r.trace), 1)
            /\ UNCHANGED actionInFlight

Goto(w, rec, p) ==
  /\ wf' = [wf EXCEPT ![w] = [rec EXCEPT !.pc = p]]
  /\ clients' = broadcastAll(clients, NewSteps(wf[w].trace, rec.trace), 1)
  /\ UNCHANGED actionInFlight

Emit(rec, steps) == [rec EXCEPT !.trace = rec.trace \o steps]
Submit(rec, name) == [rec EXCEPT !.trace = Append(rec.trace, Op(name))]

\* The locals of a call after sendErTx ended with outcome o for operation name.
Sent(rec, name, o) ==
  IF ErSubmitted(o)
    THEN [Submit(rec, name) EXCEPT
            !.silentOp = IF InstructionFailed(o) /\ @ = "none" THEN name ELSE @]
    ELSE rec

\* ws.on("message") for { type: "action", action: "add_liquidity" } sent by
\* connection c.  The synchronous prefix of handleAddLiquidity (connection and
\* program set-up, first emit) runs inside the same event.
OnAddLiquidity ==
  /\ received < MaxTriggers
  /\ received' = received + 1
  /\ IF StartsWorkflow(actionInFlight)
       THEN /\ started' = started + 1
            /\ \E setupOk \in BOOLEAN :
                 LET w    == started + 1
                     kept == [v \in Workflows |->
                                IF wf[v].pc = "done" THEN Discarded ELSE wf[v]]
                     \* what the peers hold of an earlier workflow is dropped
                     fresh == [i \in DOMAIN clients |->
                                 [clients[i] EXCEPT !.inbox = <<>>, !.joinedAt = 0,
                                                    !.lost = FALSE]]
                 IN IF setupOk
                      THEN /\ wf' = [kept EXCEPT ![w] =
                                 [Emit(NoWorkflow, StepsAtStart) EXCEPT !.pc = "readPosition"]]
                           /\ clients' = broadcastAll(fresh, StepsAtStart, 1)
                           /\ actionInFlight' = GateOnAcquire
                      ELSE /\ wf' = [kept EXCEPT ![w] =
                                 [NoWorkflow EXCEPT !.pc = "done", !.settled = "rejected"]]
                           /\ clients' = fresh
                           /\ actionInFlight' = GateAfterSettle("rejected")
       ELSE UNCHANGED <<actionInFlight, started, wf, clients>>

\* The same message, from a connection that may send it.
Trigger(c) ==
  /\ OnAddLiquidity
  /\ UNCHANGED <<chainVars, tickVars, authVars, partVars>>

\* Step 1: await checkLpPosition(...)
ReadPosition(w) ==
  /\ wf[w].pc = "readPosition"
  /\ \E ok \in BOOLEAN :
       IF ok THEN Goto(w, Emit(wf[w], StepsAfterRead), "getAccountInfo")
             ELSE Throw(w, wf[w])
  /\ UNCHANGED <<received, started, chainVars, tickVars, authVars, partVars>>

\* Step 2: await ctx.connection.getAccountInfo(config.sessionPda)
GetAccountInfo(w) ==
  /\ wf[w].pc = "getAccountInfo"
  /\ \E ok \in BOOLEAN :
       IF ~ok THEN Throw(w, wf[w])
       ELSE LET rec == [wf[w] EXCEPT !.sawDelegated = (owner = DELEGATION_PROGRAM_ID)]
            IN IF alreadyDelegated(owner)
                 THEN Goto(w, Emit(rec, StepsAlreadyDelegated), "executeAction")
                 ELSE Goto(w, rec, "readSessionOwner")
  /\ UNCHANGED <<received, started, chainVars, tickVars, authVars, partVars>>

\* Step 2: await readSessionOwner(...); null when the account is missing
ReadSessionOwner(w) ==
  /\ wf[w].pc = "readSessionOwner"
  /\ \E ok \in BOOLEAN :
       IF ok /\ owner # NoAccount
         THEN Goto(w, wf[w], "delegateSession")
         ELSE Throw(w, wf[w])
  /\ UNCHANGED <<received, started, chainVars, tickVars, authVars, partVars>>

\* Step 2: await ctx.program.methods.delegateSession(owner)...rpc()
DelegateSession(w) ==
  /\ wf[w].pc = "delegateSession"
  /\ \E o \in BaseOutcomes :
       LET rec == IF BaseSubmitted(o) THEN Submit(wf[w], "delegate_session") ELSE wf[w]
       IN IF o = "ok" /\ owner = PROGRAM_ID
            THEN /\ Goto(w, rec, "pickupSleep")
                 /\ owner' = DELEGATION_PROGRAM_ID
            ELSE /\ Throw(w, rec)
                 /\ UNCHANGED owner
  /\ UNCHANGED <<received, started, undelegPending, spentLamports, maxLamports,
                 ledgerVars, tickVars, authVars, partVars>>

\* Step 2: await sleep(ER_PICKUP_DELAY_MS)
PickupSleep(w) ==
  /\ wf[w].pc = "pickupSleep"
  /\ Goto(w, Emit(wf[w], StepsAfterPickup), "executeAction")
  /\ UNCHANGED <<received, started, chainVars, tickVars, authVars, partVars>>

\* Step 3: await sendErTx(erConnection, sessionWallet, actionTx)
ExecuteAction(w) ==
  /\ wf[w].pc = "executeAction"
  /\ \E o \in ErOutcomes :
       LET rec == Sent(wf[w], "execute_action", o)
       IN /\ ErLanded(o) =>
               ExecuteApplies(ExecuteResult(TRUE, expired, STRATEGY_MASK,
                                            ACTION_LP_REBALANCE, spentLamports,
                                            EXECUTE_ACTION_AMOUNT, maxLamports))
          /\ spentLamports' =
               IF ErLanded(o)
                 THEN SpentAfter(spentLamports, EXECUTE_ACTION_AMOUNT)
                 ELSE spentLamports
          /\ totalActions' =
               IF ErLanded(o) THEN CountAfter(totalActions) ELSE totalActions
          /\ IF ErThrows(o)
               THEN Throw(w, rec)
               ELSE Goto(w, Emit(rec, StepsAfterExecute), "commitSession")
  /\ UNCHANGED <<received, started, owner, undelegPending, maxLamports, isActive,
                 expired, committed, commitPending, lastRequest, tickVars, authVars, partVars>>

\* Step 4: await sendErTx(erConnection, sessionWallet, commitTx)
CommitSession(w) ==
  /\ wf[w].pc = "commitSession"
  /\ \E o \in ErOutcomes :
       LET rec == Sent(wf[w], "commit_session", o)
       IN /\ IF ErThrows(o)
               THEN Throw(w, rec)
               ELSE Goto(w, rec, "undelegateSession")
          /\ commitPending' =
               IF ErLanded(o) /\ owner = DELEGATION_PROGRAM_ID
                 THEN SessionData ELSE commitPending
  /\ UNCHANGED <<received, started, owner, undelegPending, spentLamports,
                 maxLamports, totalActions, isActive, expired, committed,
                 lastRequest, tickVars, authVars, partVars>>

\* Step 4: await sendErTx(erConnection, sessionWallet, undelegateTx)
UndelegateSession(w) ==
  /\ wf[w].pc = "undelegateSession"
  /\ \E o \in ErOutcomes :
       LET rec == Sent(wf[w], "undelegate_session", o)
       IN /\ IF ErThrows(o)
               THEN Throw(w, rec)
               ELSE Goto(w, [Emit(rec, StepsAfterUndelegate) EXCEPT !.i = 0], "pollSleep")
          /\ undelegPending' =
               (undelegPending \/ (ErLanded(o) /\ owner = DELEGATION_PROGRAM_ID))
          /\ isActive' =
               IF ErLanded(o) /\ owner = DELEGATION_PROGRAM_ID
                 THEN ActiveAfterUndelegate(isActive) ELSE isActive
  /\ UNCHANGED <<received, started, owner, spentLamports, maxLamports,
                 totalActions, expired, committed, commitPending, lastRequest,
                 tickVars, authVars, partVars>>

\* Step 5: the for loop's test, then await sleep(UNDELEGATION_POLL_INTERVAL_MS).
\* When the test fails the loop is left with checkpointed = false.
PollSleep(w) ==
  /\ wf[w].pc = "pollSleep"
  /\ IF PollContinues(wf[w].i)
       THEN Goto(w, [wf[w] EXCEPT !.sleeps = @ + 1], "pollFetch")
       ELSE Settle(w, [Emit(wf[w], <<StepSyncPending>>) EXCEPT !.exhausted = TRUE],
                   "fulfilled")
  /\ UNCHANGED <<received, started, chainVars, tickVars, authVars, partVars>>

\* Step 5: await ctx.connection.getAccountInfo(config.sessionPda)
PollFetch(w) ==
  /\ wf[w].pc = "pollFetch"
  /\ \E ok \in BOOLEAN :
       IF ~ok THEN Throw(w, wf[w])
       ELSE LET rec == [wf[w] EXCEPT !.fetches = @ + 1,
                                     !.returnedSeen = (owner # DELEGATION_PROGRAM_ID)]
            IN IF OwnershipReturned(owner)
                 THEN Goto(w, rec, "checkpoint")
                 ELSE Goto(w, [rec EXCEPT !.i = @ + 1], "pollSleep")
  /\ UNCHANGED <<received, started, chainVars, tickVars, authVars, partVars>>

\* break, in both arms of the inner try/catch: the loop is left once the
\* checkpoint write was attempted, and checkpointed = true skips the emit
\* after the loop.
BreaksAfterCheckpoint_missing == FALSE

BreaksAfterCheckpoint == TRUE

\* Step 5: await submitUpdateLpStatus(...) inside the inner try/catch; break
Checkpoint(w) ==
  /\ wf[w].pc = "checkpoint"
  /\ \E o \in BaseOutcomes :
       LET rec == IF BaseSubmitted(o) THEN Submit(wf[w], "update_lp_status") ELSE wf[w]
           out == IF o = "ok"
                    THEN Emit(rec, <<StepCheckpointed>>)
                    ELSE [Emit(rec, <<StepCheckpointFailed>>) EXCEPT
                            !.failedAt = 5, !.thrownPc = "checkpoint"]
       IN IF BreaksAfterCheckpoint
            THEN Settle(w, out, "fulfilled")
            ELSE Goto(w, [out EXCEPT !.i = @ + 1], "pollSleep")
  /\ UNCHANGED <<received, started, chainVars, tickVars, authVars, partVars>>

handleAddLiquidity(w) ==
  \/ ReadPosition(w)
  \/ GetAccountInfo(w)
  \/ ReadSessionOwner(w)
  \/ DelegateSession(w)
  \/ PickupSleep(w)
  \/ ExecuteAction(w)
  \/ CommitSession(w)
  \/ UndelegateSession(w)
  \/ PollSleep(w)
  \/ PollFetch(w)
  \/ Checkpoint(w)

\* ========================================================= connections
\* The steps of the latest workflow emitted so far.
LatestSteps == IF started = 0 THEN <<>> ELSE StepsOf(wf[started].trace)

\* wss.on("connection"): the socket joins wss.clients and, with no secret
\* configured, is greeted at once.
Connect ==
  /\ Len(clients) < NumConns
  /\ clients' = Append(clients,
                       NewClient(Greeting(LatestSteps), Len(LatestSteps)))
  /\ UNCHANGED <<actionInFlight, received, started, wf, chainVars, tickVars, authVars, partVars>>

\* The peer of connection i becomes unreachable; the server has not noticed.
PeerLost(i) ==
  /\ clients[i].st = "OPEN"
  /\ clients' = [clients EXCEPT ![i] = [@ EXCEPT !.st = "broken", !.inbox = <<>>,
                                                 !.joinedAt = 0]]
  /\ UNCHANGED <<actionInFlight, received, started, wf, chainVars, tickVars, authVars, partVars>>

\* ws.on("close") only logs: a call of handleAddLiquidity goes on as it was.
AfterDisconnect_cancel(rec) ==
  IF rec.pc \in ActivePcs THEN [rec EXCEPT !.pc = "discarded"] ELSE rec

AfterDisconnect(rec) == rec

\* Connection i closes: close frame, ws.close(), or the failed write surfaces.
Close(i) ==
  /\ clients[i].st \in {"OPEN", "broken"}
  /\ clients' = [clients EXCEPT ![i] = [@ EXCEPT !.st = "closed", !.inbox = <<>>,
                                                 !.joinedAt = 0, !.lost = FALSE,
                                                 !.timer = FALSE, !.age = 0,
                                                 !.cooldown = 0]]
  /\ wf' = [w \in Workflows |-> AfterDisconnect(wf[w])]
  /\ UNCHANGED <<actionInFlight, received, started, chainVars, tickVars, authVars, partVars>>

\* ------------------------------------------------------------- messages
MessageKinds ==
  {"garbage", "auth_ok", "auth_bad", "chat", "add_liquidity", "other_action"}

\* JSON.parse(raw.toString()) does not throw.
Parses_all(kind) == TRUE

Parses(kind) == kind # "garbage"

isAuthenticated_open(c) == TRUE

isAuthenticated(c) == ~secret \/ c.authed

\* authenticated.add(ws); send(ws, connectedPayload).  The timer callback of
\* a connection that authenticated does nothing, it is not followed further.
authorizeAndGreet(c) == [c EXCEPT !.authed = TRUE, !.timer = FALSE, !.age = 0]

\* ws.close(1008, ...)
CloseSocket(c) ==
  [c EXCEPT !.st = "closed", !.inbox = <<>>, !.joinedAt = 0, !.lost = FALSE,
            !.timer = FALSE, !.cooldown = 0]

\* if (msg.action === "add_liquidity")
HandledAction_any(kind) == kind \in {"add_liquidity", "other_action"}

HandledAction(kind) == kind = "add_liquidity"

\* if (chatBusy.has(ws)) return; if (Date.now() < cooldownUntil) return
ChatAccepted_cooldownOnly(c) == c.cooldown = 0

ChatAccepted(c) == ~c.chatBusy /\ c.cooldown = 0

\* chatBusy.add(ws); chatCooldown.set(ws, Date.now() + CHAT_RATE_LIMIT_MS);
\* handleChat(...) is called.
BeginChat(c) ==
  [c EXCEPT !.chatBusy = TRUE, !.cooldown = CHAT_RATE_LIMIT_MS,
            !.chatting = @ + 1]

\* ws.on("message") of connection i, up to the first await.
OnMessage(i, kind) ==
  /\ clients[i].st = "OPEN"
  /\ lastMsg' = IF clients[i].authed THEN lastMsg
                ELSE [from |-> i, kind |-> kind]
  /\ LET c == clients[i]
     IN IF ~Parses(kind)
          THEN UNCHANGED wsVars
        ELSE IF kind \in {"auth_ok", "auth_bad"}
          THEN /\ clients' =
                    IF c.authed THEN clients
                    ELSE IF secret /\ kind = "auth_ok"
                      THEN [clients EXCEPT ![i] = authorizeAndGreet(c)]
                      ELSE [clients EXCEPT ![i] = CloseSocket(c)]
               /\ UNCHANGED <<actionInFlight, received, started, wf>>
        ELSE IF ~isAuthenticated(c)
          THEN /\ clients' = [clients EXCEPT ![i] = CloseSocket(c)]
               /\ UNCHANGED <<actionInFlight, received, started, wf>>
        ELSE IF kind = "chat"
          THEN /\ clients' =
                    IF ChatAccepted(c)
                      THEN [clients EXCEPT ![i] = BeginChat(c)]
                      ELSE clients
               /\ UNCHANGED <<actionInFlight, received, started, wf>>
        ELSE IF HandledAction(kind)
          THEN OnAddLiquidity
          ELSE UNCHANGED wsVars
  /\ UNCHANGED <<secret, chainVars, tickVars, partVars>>

\* handleChat returned or threw: chat_response is broadcast, and
\* finally { chatBusy.delete(ws) }
ChatDone(i) ==
  /\ clients[i].chatting > 0
  /\ clients' = [clients EXCEPT ![i].chatBusy = FALSE, ![i].chatting = @ - 1]
  /\ UNCHANGED <<actionInFlight, received, started, wf, chainVars, tickVars,
                 authVars, partVars>>

\* if (!authenticated.has(ws)) ws.close(1008, "auth timeout")
TimeoutCloses_never(c) == FALSE

TimeoutCloses(c) == ~c.authed

\* The callback of setTimeout(..., AUTH_TIMEOUT_MS) of connection i runs.
AuthTimeout(i) ==
  /\ clients[i].timer
  /\ clients[i].age = AUTH_TIMEOUT_MS
  /\ clients' = [clients EXCEPT ![i] =
                   IF TimeoutCloses(@)
                     THEN CloseSocket(@)
                     ELSE [@ EXCEPT !.timer = FALSE]]
  /\ UNCHANGED <<actionInFlight, received, started, wf, chainVars, tickVars,
                 authVars, partVars>>

TimeSteps == {2500, 5000}

\* Time passes, up to the next timer that is due.  The age of a connection
\* is kept while its timer is pending or it is open without authentication,
\* its cooldown while it is open.
Ageing(c) ==
  /\ c.st = "OPEN"
  /\ c.timer \/ ~c.authed
  /\ c.age <= AUTH_TIMEOUT_MS

Elapse ==
  /\ \E d \in TimeSteps :
       /\ \A i \in DOMAIN clients :
            clients[i].timer => clients[i].age + d <= AUTH_TIMEOUT_MS
       /\ \E i \in DOMAIN clients :
            Ageing(clients[i]) \/ clients[i].cooldown > 0
       /\ clients' = [i \in DOMAIN clients |->
                        [clients[i] EXCEPT
                           !.age = IF Ageing(clients[i]) THEN @ + d ELSE @,
                           !.cooldown = IF @ > d THEN @ - d ELSE 0]]
  /\ UNCHANGED <<actionInFlight, received, started, wf, chainVars, tickVars,
                 authVars, partVars>>

\* ==================================================== useAgentWebSocket
\* The mobile hook: one instance, the WebSocket objects it creates and the
\* reconnect timers it sets.
Live(sock) == sock.st \in {"CONNECTING", "OPEN"}

\* ws.close() on socket k.
CloseCalled(socks, k) ==
  IF k # 0 /\ Live(socks[k]) THEN [socks EXCEPT ![k].st = "CLOSING"] ELSE socks

\* The effect: unmounted.current = false; connect().
Effect(g, socks) ==
  /\ unmounted' = FALSE
  /\ sockets' = Append(socks, [st |-> "CONNECTING", gen |-> g])
  /\ wsRef' = Len(socks) + 1

\* The cleanup of the effect: unmounted.current = true;
\* wsRef.current?.close(); if (reconnectTimer.current) clearTimeout(...).
CleanupSockets == CloseCalled(sockets, wsRef)
CleanupTimers == timers \ {reconnectTimer}

\* The first render: the effect runs.
Mount ==
  /\ hook = "unrendered"
  /\ hook' = "mounted"
  /\ Effect(urlGen, sockets)
  /\ UNCHANGED <<urlGen, reconnectTimer, timers, connected>>

\* A render with another url or token: connect is a new callback, React runs
\* the cleanup of the old effect and then the new effect, in one commit.
ChangeUrl ==
  /\ hook = "mounted"
  /\ urlGen < MaxUrls
  /\ Len(sockets) < MaxSockets
  /\ urlGen' = urlGen + 1
  /\ timers' = CleanupTimers
  /\ Effect(urlGen + 1, CleanupSockets)
  /\ UNCHANGED <<hook, reconnectTimer, connected>>

\* The component goes: the cleanup runs, no effect after it.
Unmount ==
  /\ hook = "mounted"
  /\ hook' = "gone"
  /\ unmounted' = TRUE
  /\ sockets' = CleanupSockets
  /\ timers' = CleanupTimers
  /\ UNCHANGED <<urlGen, wsRef, reconnectTimer, connected>>

\* ws.onopen of socket k.
SocketOpens(k) ==
  /\ sockets[k].st = "CONNECTING"
  /\ IF unmounted
       THEN /\ sockets' = [sockets EXCEPT ![k].st = "CLOSING"]
            /\ UNCHANGED <<connected, reconnectTimer, timers>>
       ELSE /\ sockets' = [sockets EXCEPT ![k].st = "OPEN"]
            /\ connected' = TRUE
            /\ timers' = timers \ {reconnectTimer}
            /\ reconnectTimer' = 0
  /\ UNCHANGED <<hook, urlGen, unmounted, wsRef>>

\* The close event of socket k: the server closed it, the connection failed
\* (onerror calls ws.close(), the close event follows), or a close() the
\* hook called has completed.  ws.onclose runs.
SocketCloses(k) ==
  /\ sockets[k].st # "CLOSED"
  /\ sockets' = [sockets EXCEPT ![k].st = "CLOSED"]
  \* if (unmounted.current) return: the flag is the hook's one ref,
  \* whichever socket the event belongs to
  /\ IF unmounted
       THEN UNCHANGED <<connected, reconnectTimer, timers>>
       ELSE /\ connected' = FALSE
            /\ reconnectTimer' = k
            /\ timers' = timers \cup {k}
  /\ UNCHANGED <<hook, urlGen, unmounted, wsRef>>

\* A reconnect timer runs out, WEBSOCKET.RECONNECT_DELAY_MS after it was
\* set: connect, the callback of the render that made socket t, is called.
ReconnectTimerFires(t) ==
  /\ t \in timers
  /\ timers' = timers \ {t}
  \* connect(): if (unmounted.current) return
  /\ IF ~unmounted
       THEN /\ Len(sockets) < MaxSockets
            /\ sockets' = Append(sockets, [st |-> "CONNECTING",
                                            gen |-> sockets[t].gen])
            /\ wsRef' = Len(sockets) + 1
       ELSE UNCHANGED <<sockets, wsRef>>
  /\ UNCHANGED <<hook, urlGen, unmounted, reconnectTimer, connected>>

\* const deduped = prev.filter((t) => t.timestamp !== tick.timestamp)
Deduped_none(prev, tick) == prev

Deduped(prev, tick) ==
  SelectSeq(prev, LAMBDA t : t.timestamp # tick.timestamp)

\* seq.slice(0, n)
Slice(seq, n) == SubSeq(seq, 1, IF Len(seq) < n THEN Len(seq) ELSE n)

\* The timestamps seen, and how many tick messages carried a timestamp seen
\* before.
Seen == {ts \in Timestamps : recv[ts] > 0}
Repeats == tickMsgs - Cardinality(Seen)

\* The timestamps a tick message may carry: the next one never seen, or one
\* seen before: that of the newest tick kept, of the oldest tick kept, or
\* the first one ever seen.
NextStamps ==
  {ts \in Timestamps : ts = Cardinality(Seen) + 1}
    \cup (IF history = <<>> \/ Repeats >= MaxRepeats THEN {}
          ELSE {history[1].timestamp, history[Len(history)].timestamp, 1})

\* ws.onmessage of socket k for a message of type "tick".
OnTickMessage(k) ==
  /\ sockets[k].st = "OPEN"
  /\ \E ts \in NextStamps :
       LET tick == [timestamp |-> ts, tickNumber |-> tickMsgs + 1]
       IN IF unmounted
            THEN UNCHANGED historyVars
            ELSE /\ lastTick' = tick
                 /\ history' = Slice(<<tick>> \o Deduped(history, tick),
                                     MAX_HISTORY_ITEMS)
                 /\ recv' = [recv EXCEPT ![ts] = tickMsgs + 1]
                 /\ tickMsgs' = tickMsgs + 1
  /\ UNCHANGED <<wsVars, chainVars, tickVars, authVars, sendVars, hookVars,
                 memVars, sanitizeVars>>

\* What the connection handling leaves alone.
HookFrame ==
  UNCHANGED <<wsVars, chainVars, tickVars, authVars, sendVars, historyVars,
              memVars, sanitizeVars>>

useAgentWebSocket ==
  /\ \/ Mount
     \/ ChangeUrl
     \/ Unmount
     \/ \E k \in DOMAIN sockets : SocketOpens(k)
     \/ \E k \in DOMAIN sockets : SocketCloses(k)
     \/ \E t \in timers : ReconnectTimerFires(t)
  /\ HookFrame

\* ==================================================== sanitizeMemoryEntry
\* A text is the sequence of its characters.
Alphabet ==
  [upper  |-> <<"A", "B", "C", "D", "E", "F", "G", "H", "I", "J", "K", "L", "M", "N", "O", "P", "Q", "R", "S", "T", "U", "V", "W", "X", "Y", "Z">>,
   lower  |-> <<"a", "b", "c", "d", "e", "f", "g", "h", "i", "j", "k", "l", "m", "n", "o", "p", "q", "r", "s", "t", "u", "v", "w", "x", "y", "z">>,
   digits |-> <<"0", "1", "2", "3", "4", "5", "6", "7", "8", "9">>]

\* The i flag: letters are compared in one case.
Lower(c) ==
  IF \E k \in 1..26 : Alphabet.upper[k] = c
    THEN Alphabet.lower[CHOOSE k \in 1..26 : Alphabet.upper[k] = c]
    ELSE c

\* [\r\n\t], \w, \s, and the characters [^\x20-\x7E\u00A0-\uFFFF] removes.
CharClass ==
  [linebreak    |-> {"\n", "\r", "\t"},
   word         |-> {Alphabet.upper[k] : k \in 1..26}
                      \cup {Alphabet.lower[k] : k \in 1..26}
                      \cup {Alphabet.digits[k] : k \in 1..10} \cup {"_"},
   space        |-> {" ", "\n", "\r", "\t", "\f"},
   nonprintable |-> {"\n", "\r", "\t", "\f"}]

Least(positions) == CHOOSE k \in positions : \A m \in positions : k <= m

\* How many characters of the class follow one another from position i on.
Run(class, text, i) ==
  IF i > Len(text) \/ text[i] \notin class THEN 0
  ELSE LET stops == {j \in i..Len(text) : text[j] \notin class}
       IN (IF stops = {} THEN Len(text) + 1 ELSE Least(stops)) - i

\* The literal lit, in either case, stands at position i.
At(lit, text, i) ==
  /\ i + Len(lit) - 1 <= Len(text)
  /\ \A k \in 1..Len(lit) : Lower(text[i + k - 1]) = lit[k]

\* The length of the match of each pattern at position i, 0 if it does not
\* match there.
MatchLen(pattern, text, i) ==
  CASE pattern = "[\\r\\n\\t]+" -> Run(CharClass.linebreak, text, i)
    \* "<", at least one character that is not ">", and ">"
    [] pattern = "<\\/?[^>]+>" ->
         IF /\ text[i] = "<"
            /\ i + 1 <= Len(text)
            /\ text[i + 1] # ">"
            /\ \E j \in (i + 2)..Len(text) : text[j] = ">"
           THEN Least({j \in (i + 2)..Len(text) : text[j] = ">"}) - i + 1
           ELSE 0
    [] pattern = "[^\\x20-\\x7E\\u00A0-\\uFFFF]" ->
         IF text[i] \in CharClass.nonprintable THEN 1 ELSE 0
    [] pattern = "\\[system\\]" ->
         IF At(<<"[", "s", "y", "s", "t", "e", "m", "]">>, text, i) THEN 8 ELSE 0
    [] pattern = "\\[inst\\w*\\]" ->
         LET w == Run(CharClass.word, text, i + 5)
         IN IF /\ At(<<"[", "i", "n", "s", "t">>, text, i)
               /\ i + 5 + w <= Len(text)
               /\ text[i + 5 + w] = "]"
              THEN 5 + w + 1
              ELSE 0
    [] pattern = "<\\|im_start\\|>" ->
         IF At(<<"<", "|", "i", "m", "_", "s", "t", "a", "r", "t", "|", ">">>, text, i) THEN 12 ELSE 0
    [] pattern = "###\\s*system\\s*:" ->
         LET a == Run(CharClass.space, text, i + 3)
             b == Run(CharClass.space, text, i + 3 + a + 6)
         IN IF /\ At(<<"#", "#", "#">>, text, i)
               /\ At(<<"s", "y", "s", "t", "e", "m">>, text, i + 3 + a)
               /\ i + 3 + a + 6 + b <= Len(text)
               /\ text[i + 3 + a + 6 + b] = ":"
              THEN 3 + a + 6 + b + 1
              ELSE 0

\* text.replace(/pattern/g, by), from position i on: the matches are taken
\* from left to right in the text as it was before the call, and what a
\* replacement leaves behind is not looked at again.
RECURSIVE Replace(_, _, _, _)
Replace(pattern, by, text, i) ==
  LET starts == {j \in i..Len(text) : MatchLen(pattern, text, j) > 0}
  IN IF starts = {} THEN SubSeq(text, i, Len(text))
     ELSE LET j == Least(starts)
          IN SubSeq(text, i, j - 1) \o by
               \o Replace(pattern, by, text, j + MatchLen(pattern, text, j))

\* .trim()
Trim(text) ==
  LET inner == {k \in 1..Len(text) : text[k] \notin CharClass.space}
  IN IF inner = {} THEN <<>>
     ELSE SubSeq(text, Least(inner),
                       CHOOSE k \in inner : \A m \in inner : k >= m)

sanitizeMemoryEntry(text) ==
  LET flat      == Replace("[\\r\\n\\t]+", <<" ">>, text, 1)
      untagged  == Replace("<\\/?[^>]+>", <<>>, flat, 1)
      printable == Replace("[^\\x20-\\x7E\\u00A0-\\uFFFF]", <<>>, untagged, 1)
      unsystem  == Replace("\\[system\\]", <<"[", "u", "s", "e", "r", "]">>,
                           printable, 1)
      uninst    == Replace("\\[inst\\w*\\]", <<>>, unsystem, 1)
      unchatml  == Replace("<\\|im_start\\|>", <<>>, uninst, 1)
      unheaded  == Replace("###\\s*system\\s*:", <<"#", "#", "#", " ", "n", "o", "t", "e", ":">>, unchatml, 1)
  IN Slice(Trim(unheaded), EntryCap)

\* The pieces the texts handed to sanitizeMemoryEntry are put together from.
Fragments ==
  <<<<"[", "s", "y", "s">>,
     <<"t", "e", "m", "]">>,
     <<"[", "i", "n", "s", "t", "]">>,
     <<"[", "I", "n", "s", "t", "r", "_", "1", "]">>,
     <<"[", "S", "y", "s", "t", "e", "m", "]">>,
     <<"\r", "\n">>,
     <<"\t">>,
     <<" ">>,
     <<"<", "/", "b", ">">>,
     <<"\f">>,
     <<"<", "|", "i", "m", "_", "s", "t", "a", "r", "t", "|", ">">>,
     <<"#", "#", "#", " ", "S", "Y", "S", "T", "E", "M", " ", ":">>,
     <<"a">>>>

RECURSIVE Joined(_)
Joined(pieces) ==
  IF pieces = <<>> THEN <<>> ELSE Fragments[Head(pieces)] \o Joined(Tail(pieces))

\* The texts: up to MaxFragments pieces, and a piece before or after more
\* characters than an entry may have.
EntryTexts ==
  LET padding == [k \in 1..(EntryCap + 1) |-> "a"]
  IN {Joined(pieces) :
        pieces \in UNION {[1..n -> 1..Len(Fragments)] : n \in 0..MaxFragments}}
     \cup {Fragments[k] \o padding : k \in 1..Len(Fragments)}
     \cup {padding \o Fragments[k] : k \in 1..Len(Fragments)}

\* An entry text arrives from the LLM summary or from a chat message.
SanitizeInit ==
  \E text \in EntryTexts : Boot(FALSE, [old |-> 0, new |-> <<>>], text)

\* const line = `[${timestamp}] ${sanitizeMemoryEntry(entry)}\n`
Sanitize ==
  /\ ~entryOut.done
  /\ entryOut' = [done |-> TRUE, text |-> sanitizeMemoryEntry(entryText)]
  /\ UNCHANGED entryText
  /\ UNCHANGED <<wsVars, chainVars, tickVars, authVars, sendVars, hookVars,
                 historyVars, memVars>>

\* ============================================================= memory.ts
\* What is left of the chain when its first write has run with outcome o:
\* the catch of that link settles it, the next link runs whatever o was.
Remaining_stalled(q, o) == IF o = "ok" THEN Tail(q) ELSE <<>>

Remaining(q, o) == Tail(q)

\* trimMemoryIfNeeded(): lines.slice(-MEMORY_TAIL_LINES * 2) of a file of
\* older lines followed by the entries, if it has more than MEMORY_MAX_LINES.
trimMemoryIfNeeded(file) ==
  LET k    == MEMORY_TAIL_LINES * 2
      n    == Len(file.new)
      kept == IF n < k THEN n ELSE k
  IN IF file.old + n > MEMORY_MAX_LINES
       THEN [old |-> IF k - kept < file.old THEN k - kept ELSE file.old,
             new |-> SubSeq(file.new, n - kept + 1, n)]
       ELSE file

\* appendMemory(summary) at the end of a tick.  writeQueue =
\* writeQueue.then(write).catch(() => {}): the write is chained behind the
\* writes of the calls before it.
AppendFromTick ==
  /\ appended + 1 <= MaxAppends
  /\ appended' = appended + 1
  /\ writeQueue' = writeQueue \o <<appended + 1>>
  /\ UNCHANGED <<memoryFile, written, failed>>

\* handleChat: appendMemory(`[chat] User: ...`); appendMemory(`[chat]
\* Agent: ...`), one call right after the other.
AppendFromChat ==
  /\ appended + 2 <= MaxAppends
  /\ appended' = appended + 2
  /\ writeQueue' = writeQueue \o <<appended + 1, appended + 2>>
  /\ UNCHANGED <<memoryFile, written, failed>>

\* The first write of the chain runs, in one synchronous run:
\* fs.appendFileSync throws, or it returns and the trim throws, or both
\* return.
RunWrite ==
  /\ writeQueue # <<>>
  /\ \E o \in {"append_throws", "trim_throws", "ok"} :
       LET e == Head(writeQueue)
           appendFileSync == [memoryFile EXCEPT !.new = Append(@, e)]
       IN /\ writeQueue' = Remaining(writeQueue, o)
          /\ memoryFile' =
               CASE o = "append_throws" -> memoryFile
                 [] o = "trim_throws"   -> appendFileSync
                 [] o = "ok"            -> trimMemoryIfNeeded(appendFileSync)
          /\ written' = IF o = "append_throws" THEN written ELSE written \cup {e}
          /\ failed' = IF o = "ok" THEN failed ELSE failed \cup {e}
  /\ UNCHANGED appended

appendMemory ==
  /\ \/ AppendFromTick
     \/ AppendFromChat
     \/ RunWrite
  /\ UNCHANGED <<wsVars, chainVars, tickVars, authVars, sendVars, hookVars,
                 historyVars, sanitizeVars>>

\* ====================================================== index.ts / agent.ts
Tools == {"check_lp_position", "update_lp_status", "unknown_tool"}

RECURSIVE SeqsUpTo(_, _)
SeqsUpTo(S, n) ==
  IF n = 0 THEN {<<>>}
  ELSE LET shorter == SeqsUpTo(S, n - 1)
       IN shorter \cup {Append(q, x) : q \in shorter, x \in S}

ToolBlockSeqs == SeqsUpTo(Tools, MaxBlocks) \ {<<>>}

TickMessage(n, rec, summary, err) ==
  [tickNumber  |-> n,
   position    |-> IF err THEN FALSE ELSE rec.checkResult,
   txSignature |-> IF err THEN FALSE ELSE rec.txResult,
   summary     |-> summary,
   error       |-> err]

\* broadcast(result) after runTick returned
TickReturn(t, rec, summary) ==
  /\ tk' = [tk EXCEPT ![t] = [rec EXCEPT !.pc = "done"]]
  /\ tickLog' = Append(tickLog, TickMessage(t, rec, summary, FALSE))

\* The tickNumber of the message broadcast by the catch block of tick t when
\* the counter of the loop stands at n: the catch block reads the counter,
\* which ticks begun since have incremented.
CaughtTickNumber(t, n) == n

\* catch (err) { broadcast({ type: "tick", tickNumber, ..., error: err.message }) }
\* while the counter of the loop stands at n.
TickFail(t, rec, n) ==
  /\ tk' = [tk EXCEPT ![t] = [rec EXCEPT !.pc = "done", !.threw = TRUE]]
  /\ tickLog' = Append(tickLog,
                       TickMessage(CaughtTickNumber(t, n), rec, FALSE, TRUE))

\* await tick(); setInterval(tick, config.checkIntervalMs): the first tick
\* is awaited before the interval is armed; an interval tick begins whether
\* or not the tick before it has finished.
IntervalArmed(n, ticks) == n = 0 \/ ticks[1].pc = "done"

\* const tick = async () => { tickNumber++; ... runTick(...) } up to the first
\* await of runTick (client.messages.create); loadSoul may throw.
TickStart ==
  /\ tickNumber < MaxTicks
  /\ IntervalArmed(tickNumber, tk)
  /\ tickNumber' = tickNumber + 1
  /\ LET t == tickNumber + 1
     IN \E soulOk \in BOOLEAN :
          IF soulOk
            THEN /\ tk' = [tk EXCEPT ![t] = [NoTick EXCEPT !.pc = "llm"]]
                 /\ UNCHANGED tickLog
            ELSE TickFail(t, NoTick, t)
  /\ UNCHANGED <<wsVars, chainVars, authVars, partVars, memoryLen, monitorWrites>>

\* The response of client.messages.create arrives.
LlmResponse(t) ==
  /\ tk[t].pc = "llm"
  /\ \/ \* the call throws
        /\ TickFail(t, tk[t], tickNumber)
        /\ UNCHANGED memoryLen
     \/ \* stop_reason end_turn with a summary: appendMemory(summary), whose
        \* queued file write may fail and is then dropped
        /\ TickReturn(t, tk[t], TRUE)
        /\ \E memOk \in BOOLEAN :
             memoryLen' = IF memOk THEN memoryLen + 1 ELSE memoryLen
     \/ \* stop_reason end_turn with empty text, or an unexpected stop_reason
        /\ TickReturn(t, tk[t], FALSE)
        /\ UNCHANGED memoryLen
     \/ \* stop_reason tool_use
        /\ tk[t].round < MaxRounds
        /\ \E bs \in ToolBlockSeqs :
             tk' = [tk EXCEPT ![t] = [@ EXCEPT !.pc = "tool", !.blocks = bs]]
        /\ UNCHANGED <<tickLog, memoryLen>>
  /\ UNCHANGED <<wsVars, chainVars, authVars, partVars, tickNumber, monitorWrites>>

\* One iteration of  for (const block of response.content): executeTool
ToolStep(t) ==
  /\ tk[t].pc = "tool"
  /\ tk[t].blocks # <<>>
  /\ LET b    == Head(tk[t].blocks)
         rest == Tail(tk[t].blocks)
         adv(rec) == IF rest = <<>>
                       THEN [rec EXCEPT !.blocks = rest, !.pc = "llm", !.round = @ + 1]
                       ELSE [rec EXCEPT !.blocks = rest]
     IN CASE b = "check_lp_position" ->
               /\ \E ok \in BOOLEAN :
                    tk' = [tk EXCEPT ![t] =
                             adv([@ EXCEPT !.checkResult = IF ok THEN TRUE ELSE @])]
               /\ UNCHANGED monitorWrites
          [] b = "update_lp_status" ->
               \E valid \in BOOLEAN, o \in BaseOutcomes :
                 /\ tk' = [tk EXCEPT ![t] =
                             adv([@ EXCEPT
                                    !.txResult = IF valid /\ o = "ok" THEN TRUE ELSE @,
                                    !.instrFailed = @ \/ (valid /\ o = "instr_error"),
                                    !.wroteDelegated =
                                       @ \/ (valid /\ o = "ok"
                                                /\ owner = DELEGATION_PROGRAM_ID)])]
                 /\ monitorWrites' =
                      IF valid /\ BaseSubmitted(o)
                        THEN monitorWrites \cup {owner}
                        ELSE monitorWrites
          [] OTHER ->
               /\ tk' = [tk EXCEPT ![t] = adv(@)]
               /\ UNCHANGED monitorWrites
  /\ UNCHANGED <<wsVars, chainVars, authVars, partVars, tickNumber, tickLog, memoryLen>>

runTick(t) == LlmResponse(t) \/ ToolStep(t)

\* ============================================================ specification
\* What a commit leaves on the base layer is followed in LedgerSpec: a
\* workflow and a tick read the owner of the session PDA, not its data.
\* One monitoring tick runs beside the workflows; the loop of ticks is
\* followed in MonitorSpec.
Next ==
  \/ \E c \in Conns : Trigger(c)
  \/ \E w \in Workflows : handleAddLiquidity(w)
  \/ Propagate
  \/ tickNumber = 0 /\ TickStart
  \/ \E t \in Ticks : runTick(t)

Spec == Init /\ [][Next]_vars

\* The action workflow with its triggers and the base layer, without the
\* monitoring ticks: a tick reads the owner of the session PDA and writes the
\* monitor PDA, it changes nothing a trigger or a workflow reads.
WorkflowNext ==
  \/ \E c \in Conns : Trigger(c)
  \/ \E w \in Workflows : handleAddLiquidity(w)
  \/ Propagate

WorkflowSpec == Init /\ [][WorkflowNext]_vars

\* One action workflow, from the first trigger to its end, with connections
\* that come, fail and go before it and while it runs.  Later workflows
\* broadcast through the same code to connections whose inboxes start empty.
BroadcastNext ==
  \/ \E c \in Conns : received = 0 /\ Trigger(c)
  \/ \E w \in Workflows : handleAddLiquidity(w)
  \/ Propagate
  \/ Connect
  \/ \E i \in DOMAIN clients : PeerLost(i)
  \/ \E i \in DOMAIN clients : Close(i)

BroadcastSpec == ServerInit /\ [][BroadcastNext]_vars

\* The connection handling of the server with WS_SECRET configured:
\* connections authenticate, send messages, time out and close.  The steps
\* of an accepted workflow after its synchronous prefix are left out: they
\* neither read nor write what a connection is allowed to do.
AuthNext ==
  \/ Connect
  \/ \E i \in DOMAIN clients : Close(i)
  \/ \E i \in DOMAIN clients, kind \in MessageKinds : OnMessage(i, kind)
  \/ \E i \in DOMAIN clients : ChatDone(i)
  \/ \E i \in DOMAIN clients : AuthTimeout(i)
  \/ Elapse

AuthSpec == AuthInit /\ [][AuthNext]_vars

\* The server without WS_SECRET and one workflow, from the first accepted
\* trigger to its end: one connection at a time comes, sends messages of
\* every kind and goes, before the workflow and while it runs.  One trigger
\* arrives while the gate is held.
ServerNext ==
  \/ (\A i \in DOMAIN clients : clients[i].st = "closed") /\ Connect
  \/ \E i \in DOMAIN clients : Close(i)
  \/ \E i \in DOMAIN clients, kind \in MessageKinds :
       /\ kind = "add_liquidity" =>
            (started = 0 \/ (actionInFlight /\ received = started))
       /\ OnMessage(i, kind)
  \/ \E i \in DOMAIN clients : ChatDone(i)
  \/ \E w \in Workflows : handleAddLiquidity(w)
  \/ Propagate

ServerSpec == ServerInit /\ [][ServerNext]_vars

\* The same with one monitoring tick, which begins once the connections
\* have gone, while the workflow runs or after it ended.
GateNext ==
  \/ ServerNext
  \/ /\ tickNumber = 0
     /\ Len(clients) = NumConns
     /\ \A i \in DOMAIN clients : clients[i].st = "closed" /\ ~clients[i].chatBusy
     /\ TickStart
  \/ \E t \in Ticks : runTick(t)

GateSpec == ServerInit /\ [][GateNext]_vars

\* Every external call of a running workflow eventually returns or throws.
ServerFairSpec ==
  ServerSpec /\ \A w \in Workflows : WF_vars(handleAddLiquidity(w))

\* Every external call of a running workflow eventually returns or throws.
WorkflowFairSpec ==
  WorkflowSpec /\ \A w \in Workflows : WF_vars(handleAddLiquidity(w))

\* The monitoring loop on its own: the first tick, then the interval ticks,
\* which may overlap.
MonitorNext ==
  \/ TickStart
  \/ \E t \in Ticks : runTick(t)

MonitorSpec == ServerInit /\ [][MonitorNext]_vars

\* One instance of the mobile hook, from its first render on.
HookSpec == Init /\ [][useAgentWebSocket]_vars

\* The tick messages one socket of the hook receives once it is open.
HistoryNext ==
  \/ Mount /\ HookFrame
  \/ \E k \in DOMAIN sockets : SocketOpens(k) /\ HookFrame
  \/ \E k \in DOMAIN sockets : OnTickMessage(k)

HistorySpec == ServerInit /\ [][HistoryNext]_vars

\* The memory log and the calls that append to it, from the tick loop and
\* from the chat handler.
MemorySpec == MemoryInit /\ [][appendMemory]_vars

\* sanitizeMemoryEntry applied to each of the entry texts.
SanitizeSpec == SanitizeInit /\ [][Sanitize]_vars

\* sendErTx on its own, call after call.
SendSpec == Init /\ [][sendErTx]_vars

\* ---------------------------------------------------------------- ledger
\* The session key holder, or anyone else, talks to the ledger program
\* directly, as the contract tests do.
Categories ==
  {ACTION_LP_REBALANCE, ACTION_YIELD_SWITCH, ACTION_LIQUIDATION_PROTECT}

RequestAmounts == {50000, 100000}

LedgerExecute ==
  /\ owner # NoAccount
  /\ \E signerOk \in BOOLEAN, category \in Categories, amount \in RequestAmounts :
       LET r == ExecuteResult(signerOk, expired, STRATEGY_MASK, category,
                              spentLamports, amount, maxLamports)
           spent == IF ExecuteApplies(r)
                      THEN SpentAfter(spentLamports, amount) ELSE spentLamports
           count == IF ExecuteApplies(r)
                      THEN CountAfter(totalActions) ELSE totalActions
       IN /\ spentLamports' = spent
          /\ totalActions' = count
          /\ lastRequest' = [signerOk |-> signerOk, category |-> category,
                             amount |-> amount, result |-> r]
          /\ committed' =
               IF owner = PROGRAM_ID
                 THEN [spentLamports |-> spent, totalActions |-> count,
                       isActive |-> isActive]
                 ELSE committed
  /\ UNCHANGED <<owner, undelegPending, maxLamports, isActive, expired,
                 commitPending, wsVars, tickVars, authVars, partVars>>

LedgerDelegate ==
  /\ owner = PROGRAM_ID
  /\ owner' = DELEGATION_PROGRAM_ID
  /\ UNCHANGED <<undelegPending, spentLamports, maxLamports, ledgerVars,
                 wsVars, tickVars, authVars, partVars>>

LedgerCommit ==
  /\ owner = DELEGATION_PROGRAM_ID
  /\ commitPending' = SessionData
  /\ UNCHANGED <<owner, undelegPending, spentLamports, maxLamports,
                 totalActions, isActive, expired, committed, lastRequest,
                 wsVars, tickVars, authVars, partVars>>

LedgerUndelegate ==
  /\ owner = DELEGATION_PROGRAM_ID
  /\ ~undelegPending
  /\ undelegPending' = TRUE
  /\ isActive' = ActiveAfterUndelegate(isActive)
  /\ UNCHANGED <<owner, spentLamports, maxLamports, totalActions, expired,
                 committed, commitPending, lastRequest, wsVars, tickVars, authVars, partVars>>

Expire ==
  /\ ~expired
  /\ expired' = TRUE
  /\ UNCHANGED <<owner, undelegPending, spentLamports, maxLamports,
                 totalActions, isActive, committed, commitPending, lastRequest,
                 wsVars, tickVars, authVars, partVars>>

LedgerNext ==
  \/ LedgerExecute
  \/ LedgerDelegate
  \/ LedgerCommit
  \/ LedgerUndelegate
  \/ Expire
  \/ Propagate
  \/ PropagateCommit

LedgerSpec == Init /\ [][LedgerNext]_vars

\* ================================================================ claims
Active(w) == wf[w].pc \in ActivePcs
NoneActive == \A w \in Workflows : ~Active(w)

OpCount(tr, name) == Cardinality({j \in 1..Len(tr) : tr[j] = Op(name)})
HasOp(tr, name) == \E j \in 1..Len(tr) : tr[j] = Op(name)
HasErrorStep(tr) == \E j \in 1..Len(tr) : tr[j].kind = "step" /\ tr[j].status = "error"
OpNames == {"delegate_session", "execute_action", "commit_session",
            "undelegate_session", "update_lp_status"}

\* C1: in every reachable state at most one add_liquidity workflow is in
\* flight, whatever triggers arrive while it is suspended at an await.
C1_AtMostOneWorkflow ==
  Cardinality({w \in Workflows : Active(w)}) <= 1

\* A second trigger arrived while the first workflow was suspended in its poll.
C1_Witness ==
  received = 2 /\ started = 1 /\ wf[1].pc = "pollFetch"

\* C2: a trigger received while the gate is held changes nothing (no step, no
\* operation, no workflow, the gate stays held), and a workflow starts only in
\* the event that receives a trigger with the gate free (nothing is queued).
C2_DroppedTriggerNoEffect ==
  [][ /\ (received' # received /\ actionInFlight)
           => UNCHANGED <<actionInFlight, started, wf, owner, undelegPending>>
      /\ (started' # started)
           => (received' = received + 1 /\ ~actionInFlight) ]_vars

\* A trigger was dropped and the workflow that held the gate has finished
\* since: the dropped trigger did not start a workflow afterwards.
C2_Witness ==
  received = 2 /\ started = 1 /\ wf[1].pc = "done" /\ ~actionInFlight

\* C3: the gate is free whenever no workflow is running, whatever the outcome
\* of the last one; a trigger received then starts a workflow; and a held gate
\* is eventually released when every external call returns or throws.
C3_GateReleased ==
  /\ [](NoneActive => ~actionInFlight)
  /\ [][(received' # received /\ NoneActive) => started' = started + 1]_vars
  /\ (actionInFlight ~> ~actionInFlight)

\* A second trigger was accepted after the first workflow finished, and its
\* own call rejected during set-up: the gate is free again.
C3_Witness ==
  /\ started = 2
  /\ wf[1].pc = "discarded"
  /\ wf[2].pc = "done" /\ wf[2].settled = "rejected"
  /\ ~actionInFlight

\* C4: in a workflow's trace the phases appear in the order 1..5, and every
\* step or operation of phase k+1 comes after the success step of phase k.
C4_PhasesInOrder ==
  \A w \in Workflows :
    LET tr == wf[w].trace
    IN \A j \in 1..Len(tr) :
         /\ tr[j].idx >= 2 =>
              \E h \in 1..(j - 1) :
                /\ tr[h].kind = "step"
                /\ tr[h].idx = tr[j].idx - 1
                /\ tr[h].status = "success"
         /\ \A h \in 1..(j - 1) : tr[j].idx # -1 => tr[h].idx <= tr[j].idx

\* A workflow went through all five phases and submitted its checkpoint.
C4_Witness ==
  \E w \in Workflows :
    /\ HasOp(wf[w].trace, "delegate_session")
    /\ HasOp(wf[w].trace, "update_lp_status")

\* C5: when a phase k in 1..4 threw, the workflow's trace holds no operation
\* and no step of a phase after k.
C5_FailureAborts ==
  \A w \in Workflows :
    wf[w].failedAt \in 1..4 =>
      \A j \in 1..Len(wf[w].trace) : wf[w].trace[j].idx <= wf[w].failedAt

\* The commit of phase 4 failed after its submission and the workflow ended.
C5_Witness ==
  \E w \in Workflows :
    /\ wf[w].pc = "done" /\ wf[w].failedAt = 4
    /\ HasOp(wf[w].trace, "commit_session")
    /\ ~HasOp(wf[w].trace, "undelegate_session")

\* C6: a workflow submits each signed operation at most once, and a workflow
\* that ended is never resumed: a new one starts only with a new trigger.
C6_NoRetry ==
  /\ [](\A w \in Workflows : \A n \in OpNames : OpCount(wf[w].trace, n) <= 1)
  /\ [][\A w \in Workflows :
          wf[w].pc = "done" => wf'[w].pc \in {"done", "discarded"}]_vars
  /\ [][started' # started => received' # received]_vars

\* execute_action was submitted, failed, and the workflow ended there.
C6_Witness ==
  \E w \in Workflows :
    /\ wf[w].pc = "done" /\ wf[w].failedAt = 3
    /\ OpCount(wf[w].trace, "execute_action") = 1

\* C7: a workflow whose Delegate phase found the session PDA owned by the
\* delegation program submits no delegate_session and emits the success step
\* of phase 2 directly followed by the pending step of phase 3.
C7_IdempotentDelegate ==
  \A w \in Workflows :
    wf[w].sawDelegated =>
      LET tr == wf[w].trace
      IN /\ ~HasOp(tr, "delegate_session")
         /\ \E j \in 1..(Len(tr) - 1) :
              /\ tr[j] = Step(2, "success", "already_delegated")
              /\ tr[j + 1] = Step(3, "pending", "executing")

\* An already delegated session was taken on to phase 4.
C7_Witness ==
  \E w \in Workflows : wf[w].sawDelegated /\ wf[w].pc = "commitSession"

\* C8: the monitoring tick never submits update_lp_status in a state where the
\* session PDA is owned by the delegation program.
C8_MonitorWriteExclusive ==
  DELEGATION_PROGRAM_ID \notin monitorWrites

\* C9: when the poll ran out of attempts, the workflow's last step is the
\* success step of phase 5 saying the base-layer sync is pending, it emitted no
\* error step and submitted no checkpoint write.
C9_SoftTimeout ==
  \A w \in Workflows :
    wf[w].exhausted =>
      LET tr == wf[w].trace
      IN /\ tr[Len(tr)] = Step(5, "success", "sync_pending")
         /\ ~HasErrorStep(tr)
         /\ ~HasOp(tr, "update_lp_status")
         /\ wf[w].pc = "done"

\* A workflow that delegated the session itself ran out of poll attempts.
C9_Witness ==
  \E w \in Workflows :
    wf[w].exhausted /\ HasOp(wf[w].trace, "delegate_session")

PollPcs == {"pollSleep", "pollFetch"}

\* C10: the poll makes at most UNDELEGATION_POLL_ATTEMPTS fetches, one sleep
\* before each, stops at the first fetch that does not show the delegation
\* program as owner, ends without an error when the attempts run out, and
\* always ends.
C10_PollTerminates ==
  /\ [](\A w \in Workflows :
          /\ wf[w].fetches <= UNDELEGATION_POLL_ATTEMPTS
          /\ wf[w].sleeps <= UNDELEGATION_POLL_ATTEMPTS
          /\ wf[w].fetches <= wf[w].sleeps
          /\ wf[w].sleeps <= wf[w].fetches + 1
          /\ (wf[w].pc = "pollSleep" => wf[w].sleeps = wf[w].fetches)
          /\ (wf[w].returnedSeen => wf[w].pc \in {"checkpoint", "done"})
          /\ (wf[w].exhausted =>
                /\ wf[w].fetches = UNDELEGATION_POLL_ATTEMPTS
                /\ wf[w].failedAt = 0
                /\ ~wf[w].returnedSeen))
  /\ \A w \in Workflows : (wf[w].pc \in PollPcs) ~> (wf[w].pc \notin PollPcs)

\* The poll stopped at a fetch, not the first one, that found the account gone.
C10_Witness ==
  \E w \in Workflows :
    /\ wf[w].returnedSeen /\ wf[w].fetches >= 2
    /\ owner = NoAccount

\* C11: a workflow submits the checkpoint write of phase 5 only after one of
\* its own polls observed the session PDA not owned by the delegation program.
C11_CheckpointAfterReturn ==
  \A w \in Workflows :
    (wf[w].pc = "checkpoint" \/ HasOp(wf[w].trace, "update_lp_status")) =>
      /\ wf[w].returnedSeen
      /\ wf[w].fetches >= 1
      /\ HasOp(wf[w].trace, "undelegate_session")

\* The checkpoint write was submitted after polls that still saw the session
\* delegated and one that saw it back with the program.
C11_Witness ==
  \E w \in Workflows :
    /\ HasOp(wf[w].trace, "update_lp_status")
    /\ wf[w].fetches >= 2 /\ wf[w].returnedSeen
    /\ owner = PROGRAM_ID

ErrorSteps(tr) == {j \in 1..Len(tr) : tr[j].kind = "step" /\ tr[j].status = "error"}

\* C12 as stated: a workflow in which an await threw, in whatever phase, has
\* ended with exactly one error step, its last, and that step has index -1.
C12_EveryThrowIndexMinusOne ==
  \A w \in Workflows :
    wf[w].thrownPc # "none" =>
      LET tr == wf[w].trace
      IN /\ wf[w].pc = "done" /\ wf[w].settled = "fulfilled"
         /\ ErrorSteps(tr) = {Len(tr)}
         /\ tr[Len(tr)].idx = -1

\* C12: a workflow in which an await threw has fulfilled with exactly one
\* error step, its last: index -1 when the throw was in phases 1-4 or in a poll
\* fetch, index 5 when it was the checkpoint write; the gate is free again.
C12_ThrowCaught ==
  \A w \in Workflows :
    wf[w].thrownPc # "none" =>
      LET tr == wf[w].trace
      IN /\ wf[w].pc = "done" /\ wf[w].settled = "fulfilled"
         /\ ~actionInFlight
         /\ ErrorSteps(tr) = {Len(tr)}
         /\ tr[Len(tr)].idx = IF wf[w].thrownPc = "checkpoint" THEN 5 ELSE -1

\* The checkpoint write of a second workflow was submitted and threw.
C12_Witness ==
  /\ started = 2
  /\ wf[2].thrownPc = "checkpoint" /\ wf[2].pc = "done"
  /\ HasOp(wf[2].trace, "update_lp_status")

\* C13: when the transaction of execute_action, commit_session or
\* undelegate_session was confirmed with a failed instruction, the workflow
\* ended with the caught error step, without a success step for that phase, without a later
\* submission and without any step of a later phase.
C13_SilentFailureAborts ==
  \A w \in Workflows :
    wf[w].silentOp # "none" =>
      LET tr == wf[w].trace
          k  == PhaseOfOp(wf[w].silentOp)
      IN /\ wf[w].pc = "done"
         /\ tr[Len(tr)] = StepCaught
         /\ tr[Len(tr) - 1] = Op(wf[w].silentOp)
         /\ \A j \in 1..Len(tr) :
              /\ tr[j].idx <= k
              /\ ~(tr[j].kind = "step" /\ tr[j].idx = k /\ tr[j].status = "success")

\* The undelegate was confirmed with a failed instruction after the commit
\* went through.
Ends(w) == wf[w].pc \in ActivePcs /\ wf'[w].pc = "done"

\* C27: a workflow that delegated the session, or found it delegated, ends
\* only after it submitted an undelegate, or with the session owned by the
\* program again.
C27_NeverLeftDelegated ==
  [][\A w \in Workflows :
       (Ends(w) /\ (wf'[w].sawDelegated
                    \/ (HasOp(wf'[w].trace, "delegate_session")
                        /\ wf'[w].thrownPc # "delegateSession")))
       => \/ HasOp(wf'[w].trace, "undelegate_session")
          \/ owner' = PROGRAM_ID]_vars

CommitFailed(w) ==
  \/ wf[w].thrownPc = "commitSession"
  \/ wf[w].silentOp = "commit_session"

\* C28: a workflow submits its undelegate only after its commit was
\* confirmed without error; after a failed commit it submits no undelegate
\* and emits no success step of phase 4.
C28_UndelegateOnlyAfterCommit ==
  \A w \in Workflows :
    /\ HasOp(wf[w].trace, "undelegate_session")
         => HasOp(wf[w].trace, "commit_session") /\ ~CommitFailed(w)
    /\ CommitFailed(w)
         => /\ ~HasOp(wf[w].trace, "undelegate_session")
            /\ \A j \in 1..Len(wf[w].trace) :
                 ~(wf[w].trace[j].kind = "step" /\ wf[w].trace[j].idx = 4
                   /\ wf[w].trace[j].status = "success")

\* C30: a workflow that took the gate has emitted a step by the time the
\* gate is released.
C30_StepBeforeRelease ==
  \A w \in Workflows :
    wf[w].pc = "done" => StepsOf(wf[w].trace) # <<>>

\* C19: a workflow whose position read threw emitted the pending step of
\* phase 1 and the caught error step and nothing else, submitted no operation,
\* and neither its start nor its read changed the session PDA's owner.
C19_ReadFailureNoEffect ==
  /\ [](\A w \in Workflows :
          wf[w].failedAt = 1 =>
            /\ wf[w].pc = "done"
            /\ wf[w].trace = <<Step(1, "pending", "reading"), StepCaught>>)
  /\ [][\A w \in Workflows :
          (wf[w].pc \in {"none", "readPosition"} /\ wf'[w] # wf[w])
            => UNCHANGED chainVars]_vars

\* The read of the first workflow threw while the session was delegated.
C19_Witness ==
  /\ started = 1 /\ wf[1].failedAt = 1 /\ wf[1].pc = "done"
  /\ owner = DELEGATION_PROGRAM_ID

\* C14: a tick one of whose update_lp_status submissions was confirmed with a
\* failed instruction is broadcast with a non-null error.
C14_InstrFailureSurfaced ==
  \A j \in 1..Len(tickLog) :
    tk[tickLog[j].tickNumber].instrFailed => tickLog[j].error

\* C15: every tick that has been broadcast appended one entry to MEMORY.md.
C15_EveryTickAppends ==
  memoryLen = Cardinality({t \in Ticks : tk[t].pc = "done"})

\* C16: a tick message carries a transaction signature only when an
\* update_lp_status of that tick succeeded, and never when that write was made
\* while the session PDA was owned by the delegation program.
C16_ReferenceOnlyAfterWrite ==
  \A j \in 1..Len(tickLog) :
    tickLog[j].txSignature =>
      /\ tk[tickLog[j].tickNumber].txResult
      /\ ~tk[tickLog[j].tickNumber].wroteDelegated

\* C20: whatever execute_action submissions the workflows make, accepted or
\* rejected, the exposure spent never decreases and never exceeds the cap.
C20_ExposureBounded ==
  /\ [](spentLamports <= maxLamports)
  /\ [][spentLamports' >= spentLamports]_vars

\* Two workflows spent up to the cap exactly and the execute_action of a third
\* was confirmed with a failed instruction.
C20_Witness ==
  /\ spentLamports = maxLamports
  /\ started = 3
  /\ wf[3].silentOp = "execute_action"

\* C17: a connection that is open and reachable holds exactly the steps of the
\* latest workflow emitted since it joined, in the order of emission: all of
\* them when it was there at the workflow's start, none from before its join.
C17_OrderedNoReplay ==
  \A i \in DOMAIN clients :
    clients[i].st = "OPEN" =>
      /\ clients[i].joinedAt <= Len(LatestSteps)
      /\ clients[i].inbox =
           SubSeq(LatestSteps, clients[i].joinedAt + 1, Len(LatestSteps))

\* One connection saw the whole of a workflow that reached its checkpoint,
\* another joined after the third step and holds only the later ones.
C17_Witness ==
  /\ Len(clients) = 2
  /\ clients[1].st = "OPEN" /\ clients[1].joinedAt = 0
  /\ clients[2].st = "OPEN" /\ clients[2].joinedAt = 3
  /\ LatestSteps[Len(LatestSteps)] = StepCheckpointed
  /\ Len(clients[1].inbox) > Len(clients[2].inbox)

\* C18: when a step written to one connection was lost, every connection open
\* and reachable since the workflow's start still holds every step, and the
\* workflow's trace has an error step only where one of its own awaits threw.
C18_SendFailureIsolated ==
  (\E i \in DOMAIN clients : clients[i].lost) =>
    /\ \A k \in DOMAIN clients :
         (clients[k].st = "OPEN" /\ clients[k].joinedAt = 0)
           => clients[k].inbox = LatestSteps
    /\ wf[started].settled # "rejected"
    /\ HasErrorStep(wf[started].trace) => wf[started].thrownPc # "none"

\* The first connection became unreachable during a workflow, a step written
\* to it was lost, and the workflow went on to its checkpoint, which the
\* second connection received.
C18_Witness ==
  /\ Len(clients) = 2
  /\ clients[1].lost
  /\ clients[2].st = "OPEN" /\ clients[2].joinedAt = 0
  /\ clients[2].inbox[Len(clients[2].inbox)] = StepCheckpointed

\* A request arrives at the ledger.
Requested == lastRequest' # lastRequest \/ spentLamports' # spentLamports

\* C21: a request whose amount would take the spent exposure over the cap
\* of the session is rejected with ExposureLimitExceeded and leaves the
\* spent exposure and the action count as they were.
C21_OverLimitRejected ==
  [][(/\ Requested
      /\ lastRequest'.signerOk
      /\ ~expired
      /\ BitSet(STRATEGY_MASK, lastRequest'.category)
      /\ spentLamports + lastRequest'.amount > maxLamports)
     => /\ lastRequest'.result = "ExposureLimitExceeded"
        /\ spentLamports' = spentLamports
        /\ totalActions' = totalActions]_vars

C21_Witness ==
  /\ lastRequest.result = "ExposureLimitExceeded"
  /\ spentLamports = 150000
  /\ maxLamports = 150000
  /\ totalActions = 2

\* C22: a request is accepted only if it is signed by the session key and
\* the bit of its category is set in the strategy mask; another signer is
\* rejected with UnauthorizedKey, a clear bit with StrategyNotEnabled, and
\* neither rejection changes the action count or the spent exposure.
C22_KeyAndStrategy ==
  [][Requested =>
      LET q == lastRequest'
      IN /\ q.result = "ok" =>
              q.signerOk /\ BitSet(STRATEGY_MASK, q.category)
         /\ ~q.signerOk => q.result = "UnauthorizedKey"
         /\ (q.signerOk /\ ~expired /\ ~BitSet(STRATEGY_MASK, q.category))
              => q.result = "StrategyNotEnabled"
         /\ q.result \in {"UnauthorizedKey", "StrategyNotEnabled"}
              => /\ totalActions' = totalActions
                 /\ spentLamports' = spentLamports]_vars

C22_Witness ==
  /\ lastRequest.result = "StrategyNotEnabled"
  /\ lastRequest.category = ACTION_LIQUIDATION_PROTECT
  /\ totalActions = 2
  /\ spentLamports = 150000

\* C23: an accepted request on a delegated session adds exactly its amount
\* to the spent exposure and one to the action count; a commit takes that
\* action count to the base layer copy and leaves the session active and
\* delegated.
C23_ExecuteThenCommit ==
  [][/\ (Requested /\ lastRequest'.result = "ok"
          /\ owner = DELEGATION_PROGRAM_ID)
        => /\ spentLamports' = spentLamports + lastRequest'.amount
           /\ totalActions' = totalActions + 1
     /\ (commitPending' # commitPending /\ commitPending' # NoCommit)
        => /\ commitPending'.totalActions = totalActions
           /\ UNCHANGED <<owner, isActive, totalActions>>
     /\ (commitPending # NoCommit /\ commitPending' = NoCommit
          /\ owner' = DELEGATION_PROGRAM_ID)
        => /\ committed'.totalActions = commitPending.totalActions
           /\ UNCHANGED <<owner, isActive, totalActions>>]_vars

C23_Witness ==
  /\ owner = DELEGATION_PROGRAM_ID
  /\ isActive
  /\ lastRequest.result = "ok"
  /\ spentLamports = 150000
  /\ totalActions = 2
  /\ committed.totalActions = 2
  /\ commitPending = NoCommit

\* C24: when the ownership of an undelegated session has returned, the
\* session read on the base layer is inactive and its action count is the
\* one reached on the ER.
C24_UndelegatedFinalState ==
  [][(owner = DELEGATION_PROGRAM_ID /\ owner' = PROGRAM_ID)
     => /\ ~committed'.isActive
        /\ committed'.totalActions = totalActions
        /\ totalActions' = totalActions]_vars

C24_Witness ==
  /\ owner = PROGRAM_ID
  /\ ~committed.isActive
  /\ committed.totalActions = 2
  /\ totalActions = 2

\* An unauthenticated connection is open no longer than the timeout.
AuthDeadlineKept ==
  \A i \in DOMAIN clients :
    (secret /\ clients[i].st = "OPEN" /\ ~clients[i].authed)
      => clients[i].age <= AUTH_TIMEOUT_MS

\* A message of one of the kinds from an unauthenticated connection closes
\* it in the same step; a workflow or a chat request is started only by a
\* message of an authenticated connection.
AuthGate(kinds) ==
  /\ \A i \in DOMAIN clients :
       (/\ lastMsg' # lastMsg
        /\ lastMsg'.from = i
        /\ lastMsg'.kind \in kinds
        /\ ~clients[i].authed)
       => clients'[i].st = "closed"
  /\ started' # started
       => \E i \in DOMAIN clients :
            clients[i].authed /\ OnMessage(i, "add_liquidity")
  /\ \A i \in DOMAIN clients :
       (clients'[i].chatBusy /\ ~clients[i].chatBusy)
       => clients[i].authed /\ OnMessage(i, "chat")

\* C25 as stated: with WS_SECRET configured an unauthenticated connection is
\* closed 5 seconds after connecting at the latest, a wrong token or any
\* other message but a valid auth closes it at once, and no workflow or
\* chat request is started by an unauthenticated connection.
C25_AnyMessageCloses ==
  []AuthDeadlineKept /\ [][AuthGate(MessageKinds \ {"auth_ok"})]_vars

\* C25, amended: the same, where the messages that close the connection at
\* once are a wrong token and every non-auth message that parses as JSON;
\* text that does not parse is ignored and leaves the connection open until
\* the timeout.
C25_ParsedMessageCloses ==
  []AuthDeadlineKept
    /\ [][AuthGate({"auth_bad", "chat", "add_liquidity", "other_action"})]_vars

\* One connection was closed by a chat message it sent at the deadline
\* without having authenticated, and an authenticated one started a workflow.
C25_Witness ==
  /\ secret
  /\ started = 1
  /\ \E i, j \in DOMAIN clients :
       /\ clients[i].st = "closed"
       /\ ~clients[i].authed
       /\ clients[i].age = AUTH_TIMEOUT_MS
       /\ lastMsg = [from |-> i, kind |-> "chat"]
       /\ clients[j].authed
       /\ clients[j].chatBusy

\* Where a workflow is when its delegate phase has succeeded and it has not
\* ended.
PastDelegatePcs ==
  {"pickupSleep", "executeAction", "commitSession", "undelegateSession",
   "pollSleep", "pollFetch", "checkpoint"}

\* The workflow started last; the gate lets no other one run beside it.
Latest == IF started = 0 THEN NoWorkflow ELSE wf[started]

\* A message of any kind arrives, a connection comes or goes, the answer to
\* a chat is ready.
FromOutside ==
  \/ Connect
  \/ \E i \in DOMAIN clients : Close(i)
  \/ \E i \in DOMAIN clients, kind \in MessageKinds : OnMessage(i, kind)
  \/ \E i \in DOMAIN clients : ChatDone(i)

TerminalSteps ==
  {StepCheckpointed, StepCheckpointFailed, StepSyncPending, StepCaught}

EndedWithTerminalStep(rec) ==
  IF rec.pc = "done" /\ rec.trace # <<>>
    THEN rec.trace[Len(rec.trace)] \in TerminalSteps
    ELSE FALSE

\* C26: once the delegate phase of a workflow has succeeded, no message, no
\* connect and no disconnect changes anything of the workflow, and it goes
\* on until it has emitted a terminal step.
C26_NoOutsideAbort ==
  /\ [][\A w \in Workflows :
          \/ wf'[w] = wf[w]
          \/ wf[w].pc \notin PastDelegatePcs
          \/ ~FromOutside]_vars
  /\ (Latest.pc \in PastDelegatePcs) ~> EndedWithTerminalStep(Latest)

\* The connection that sent the trigger closed while the workflow ran, a
\* second one connected during it and asked a chat question, and the
\* workflow, which had delegated the session, reached its checkpoint.
C26_Witness ==
  /\ wf[1].pc = "done"
  /\ HasOp(wf[1].trace, "delegate_session")
  /\ wf[1].trace[Len(wf[1].trace)] = StepCheckpointed
  /\ Len(clients) = 2
  /\ clients[1].st = "closed"
  /\ clients[2].st = "OPEN"
  /\ clients[2].joinedAt > 0
  /\ clients[2].joinedAt < Len(LatestSteps)
  /\ clients[2].chatBusy

\* The gate is taken: an add_liquidity message starts a workflow.
Acquire ==
  /\ started' = started + 1
  /\ \E i \in DOMAIN clients : OnMessage(i, "add_liquidity")

\* The gate is given back: a workflow ends.
Release == \E w \in Workflows : wf[w].pc \in ActivePcs /\ wf'[w].pc = "done"

\* A chat or auth message, an unparseable one, a message naming another
\* action, a step of a monitoring tick, a connect or a disconnect.
NoTrigger ==
  \/ Connect
  \/ \E i \in DOMAIN clients : Close(i)
  \/ \E i \in DOMAIN clients, kind \in MessageKinds \ {"add_liquidity"} :
       OnMessage(i, kind)
  \/ \E i \in DOMAIN clients : ChatDone(i)
  \/ TickStart
  \/ \E t \in Ticks : runTick(t)

\* No workflow emits a step and no connection receives one.
NoStepEmitted ==
  /\ \A w \in Workflows : wf'[w].trace = wf[w].trace
  /\ \A i \in DOMAIN clients' :
       IF i \in DOMAIN clients
         THEN Len(clients'[i].inbox) <= Len(clients[i].inbox)
         ELSE clients'[i].inbox = <<>>

\* C29: the gate flag changes only when an add_liquidity message starts a
\* workflow and when a workflow ends; every other message, every step of a
\* monitoring tick, every connect and disconnect leaves the flag as it was
\* and emits no step.
C29_GateOnlyAcquireRelease ==
  [][/\ actionInFlight' # actionInFlight => (Acquire \/ Release)
     /\ (actionInFlight' = actionInFlight /\ NoStepEmitted) \/ ~NoTrigger]_vars

\* A trigger was dropped while the gate was held, the connections went, and
\* a monitoring tick was broadcast with the gate still held.
C29_Witness ==
  /\ actionInFlight
  /\ received > started
  /\ Len(tickLog) = 1
  /\ \A i \in DOMAIN clients : clients[i].st = "closed"

\* ------------------------------------------------------------------ C31
\* The terminal steps in a trace, by position.
TerminalAt(tr) == {j \in 1..Len(tr) : tr[j] \in TerminalSteps}

\* C31: a workflow that entered its phases has no terminal step while it
\* runs and exactly one when it has ended, its last entry: step 5 success
\* (checkpointed after the owner was seen returned, or deferred after the
\* poll ran out), step 5 error (the owner was seen returned and the one
\* checkpoint write failed) or step -1 error (an await outside the
\* checkpoint write threw); so step 5 and step -1 never end the same workflow.
C31_OneTerminalStep ==
  \A w \in Workflows :
    LET rec == wf[w]
        tr  == rec.trace
        end == tr[Len(tr)]
    IN /\ rec.pc \in ActivePcs => TerminalAt(tr) = {}
       /\ (rec.pc = "done" /\ rec.settled = "fulfilled") =>
            /\ TerminalAt(tr) = {Len(tr)}
            /\ end = StepCheckpointed =>
                 rec.returnedSeen /\ rec.thrownPc = "none"
            /\ end = StepSyncPending =>
                 rec.exhausted /\ rec.thrownPc = "none"
                   /\ ~HasOp(tr, "update_lp_status")
            /\ end = StepCheckpointFailed =>
                 rec.returnedSeen /\ rec.thrownPc = "checkpoint"
                   /\ OpCount(tr, "update_lp_status") <= 1
            /\ end = StepCaught =>
                 rec.thrownPc \notin {"none", "checkpoint"}

\* A workflow polled twice, saw the owner returned, submitted the checkpoint
\* write, which failed, and ended with step 5 error.
C31_Witness ==
  \E w \in Workflows :
    /\ wf[w].pc = "done"
    /\ wf[w].fetches >= 2
    /\ OpCount(wf[w].trace, "update_lp_status") = 1
    /\ wf[w].trace[Len(wf[w].trace)] = StepCheckpointFailed

\* ------------------------------------------------------------------ C32
\* C32: a sendErTx call returns a signature only when getTransaction
\* returned the receipt of the transaction and the receipt shows no error;
\* a call whose receipt was unavailable (null) does not return a signature.
C32_SuccessOnlyWithReceipt ==
  \A j \in 1..Len(erLog) :
    erLog[j].result = "sig" => erLog[j].receipt = "ok"

\* ------------------------------------------------------------------ C33
\* C33: with WS_SECRET configured, a connection that has not authenticated
\* has received no outbound message, also when a broadcast happens while it
\* is open within its auth window.
C33_NothingBeforeAuth ==
  secret =>
    \A i \in DOMAIN clients :
      ~clients[i].authed => clients[i].inbox = <<>>

\* ------------------------------------------------------------------ C34
\* C34: tick events are broadcast in strictly increasing tickNumber order,
\* so that lastTick, the tick broadcast last, holds the highest-numbered
\* tick broadcast so far, also when an interval tick begins before the tick
\* before it has finished.
C34_TicksInOrder ==
  \A i, j \in 1..Len(tickLog) :
    i < j => tickLog[i].tickNumber < tickLog[j].tickNumber

\* ------------------------------------------------------------------ C35
\* C35: the counter goes up by one per tick; a tick that has finished has
\* broadcast exactly one tick event with its own tickNumber, and when its
\* runTick threw that event carries an error and neither position fields nor
\* a reference; and a tick that threw does not keep the next one from
\* beginning.
C35_LoopSurvivesFailure ==
  /\ \A t \in Ticks :
       tk[t].pc = "done" =>
         LET mine == {j \in 1..Len(tickLog) : tickLog[j].tickNumber = t}
         IN /\ Cardinality(mine) = 1
            /\ tk[t].threw =>
                 \A j \in mine : /\ tickLog[j].error
                                 /\ ~tickLog[j].position
                                 /\ ~tickLog[j].txSignature
  /\ \A t \in Ticks : tk[t].pc # "none" <=> t <= tickNumber
  /\ (tickNumber \in 1..(MaxTicks - 1) /\ tk[1].pc = "done") => ENABLED TickStart

\* ------------------------------------------------------------------ C36
\* C36: a connection has at most one handleChat call in progress, and is
\* marked busy exactly while it has one; a chat message that arrives while
\* the connection is busy or within 3000 ms of its last accepted chat is
\* dropped without a call; a chat message that arrives otherwise at an
\* authenticated connection is accepted; and every outcome of the call
\* clears the busy mark.
C36_OneChatPerConnection ==
  /\ [](\A i \in DOMAIN clients :
          /\ clients[i].chatting <= 1
          /\ clients[i].chatBusy <=> clients[i].chatting = 1
          /\ clients[i].cooldown <= CHAT_RATE_LIMIT_MS)
  /\ [][\A i \in DOMAIN clients :
          /\ (OnMessage(i, "chat")
                /\ (clients[i].chatBusy \/ clients[i].cooldown > 0))
               => clients' = clients
          /\ (OnMessage(i, "chat") /\ isAuthenticated(clients[i])
                /\ ~clients[i].chatBusy /\ clients[i].cooldown = 0)
               => clients'[i].chatting = 1
          /\ ChatDone(i) => ~clients'[i].chatBusy]_vars

\* One connection was answered within its cooldown, which has not elapsed:
\* the cooldown alone drops a chat it sends now.  The chat of another has
\* been in progress for longer than the cooldown: the busy mark alone drops
\* a chat it sends now.
C36_Witness ==
  \E i, j \in DOMAIN clients :
    /\ clients[i].st = "OPEN" /\ clients[i].authed
    /\ ~clients[i].chatBusy
    /\ clients[i].cooldown \in 1..(CHAT_RATE_LIMIT_MS - 1)
    /\ clients[j].st = "OPEN" /\ clients[j].authed
    /\ clients[j].chatBusy
    /\ clients[j].cooldown = 0

\* ------------------------------------------------------------------ C37
\* C37: a hook instance never has more than one WebSocket that is open or
\* connecting; the close event of a socket that was replaced, or of any
\* socket after the unmount, sets no reconnect timer; a reconnect timer is
\* set only by the close of the current socket while the hook is mounted.
C37_OneSocket ==
  /\ [](Cardinality({k \in DOMAIN sockets : Live(sockets[k])}) <= 1)
  /\ [][\A k \in DOMAIN sockets :
          (k \in timers' /\ k \notin timers) =>
             (k = wsRef /\ hook = "mounted")]_vars

\* ------------------------------------------------------------------ C38
\* C38: whatever tick messages were received, the history holds at most 50
\* ticks, no two of them with the same timestamp, each the latest tick
\* received with its timestamp, ordered so that a tick whose timestamp was
\* received later stands before one whose timestamp was received earlier,
\* and its first entry is lastTick.
C38_HistoryBounded ==
  /\ Len(history) <= MAX_HISTORY_ITEMS
  /\ Cardinality({history[i].timestamp : i \in 1..Len(history)}) = Len(history)
  /\ \A i \in 1..(Len(history) - 1) :
       recv[history[i].timestamp] > recv[history[i + 1].timestamp]
  /\ \A i \in 1..Len(history) :
       history[i].tickNumber = recv[history[i].timestamp]
  /\ IF tickMsgs = 0 THEN history = <<>> /\ lastTick = NoTickData
                     ELSE history # <<>> /\ history[1] = lastTick

\* More timestamps were seen than the history holds, and the first
\* timestamp ever seen, which the history had dropped, came again: its tick
\* stands at the front.
C38_Witness ==
  /\ Len(history) = MAX_HISTORY_ITEMS
  /\ Cardinality(Seen) > MAX_HISTORY_ITEMS
  /\ Repeats = 1
  /\ history[1].timestamp = 1

\* ------------------------------------------------------------------ C39
RECURSIVE Ascending(_)
Ascending(q) ==
  IF Len(q) < 2 THEN TRUE ELSE q[1] < q[2] /\ Ascending(Tail(q))

Entries(q) == {q[k] : k \in 1..Len(q)}

\* C39: the entries reach the log in the order of their appendMemory calls,
\* one write at a time: a write has run only when the write of every
\* earlier call has run, and every call's entry either waits in the chain or
\* has had its own write, whether or not the write of an earlier call
\* failed.
C39_AppendsInOrder ==
  /\ Ascending(memoryFile.new)
  /\ Ascending(writeQueue)
  /\ \A e \in written \cup failed : \A q \in Entries(writeQueue) : e < q
  /\ Entries(writeQueue) \cup written \cup failed = 1..appended
  /\ Entries(memoryFile.new) \subseteq written

\* The tick loop and the chat handler both appended; the append of the first
\* entry threw, and the two entries called after it are in the log.
C39_Witness ==
  /\ appended >= 3
  /\ 1 \in failed \ written
  /\ memoryFile.new = <<2, 3>>

\* ------------------------------------------------------------------ C40
HasSystemTag(text) ==
  \E i \in 1..Len(text) : MatchLen("\\[system\\]", text, i) > 0

\* C40: what sanitizeMemoryEntry returns holds no [system] tag in any
\* letter case, no newline, carriage return or tab, and at most 500
\* characters.
C40_SanitizedEntry ==
  entryOut.done =>
    /\ ~HasSystemTag(entryOut.text)
    /\ \A i \in 1..Len(entryOut.text) : entryOut.text[i] \notin CharClass.linebreak
    /\ Len(entryOut.text) <= EntryCap
====
